---- MODULE Spec2Model ----
(***************************************************************************)
(* Model of codigo_python/analyze_dataset_and_create_splits.py:            *)
(* mask percentage extraction, threshold selection, labeling and the       *)
(* two-stage stratified partitioning.                                      *)
(*                                                                         *)
(* Numbers: percentages, thresholds, ratios and cluster centers are exact  *)
(* rationals (numerator/denominator pairs or integers); the ratio inputs   *)
(* are chosen so that the double-precision products the code forms round   *)
(* to the same integers as the exact ones.                                 *)
(*                                                                         *)
(* Random generators: numpy's RandomState(seed) is a fixed but unknown     *)
(* stream of draws.  The stream of RANDOM_SEED is the function `tape',     *)
(* chosen once in the initial state; a generator is a position on it, and  *)
(* every random operation (choice, permutation) consumes one cell.         *)
(***************************************************************************)
EXTENDS Integers, Sequences, FiniteSets, TLC

VARIABLES
    \* ---- create_stratified_splits -------------------------------------
    labels,       \* [r['class'] for r in results], the stratification labels
    ratios,       \* (train_ratio, val_ratio, test_ratio) as n/den
    tape,         \* the draw stream of RandomState(RANDOM_SEED)
    np_random,    \* position of the process-wide generator (np.random)
    split,        \* outcome of the latest create_stratified_splits call
    runs,         \* outcomes of all calls so far, oldest first
    seedings,     \* the generators seeded so far, oldest first
    \* ---- determine_optimal_thresholds, classify_images ----------------
    percentages,  \* [r['percentage'] for r in results]
    method,       \* the strategy name passed to the selector
    selector,     \* outcome of determine_optimal_thresholds
    result_class, \* r['class'] per record, <<>> before classify_images
    \* ---- calculate_corroded_percentage -------------------------------
    mask,         \* the mask file behind mask_path
    percentage,   \* what calculate_corroded_percentage returned
    \* ---- analyze_all_images ------------------------------------------
    mask_dir,     \* os.listdir(mask_dir): the files, in listing order
    mask_files,   \* the sorted .jpg names
    loop_i,       \* number of mask files the loop has been through
    results,      \* the records appended so far
    stdout,       \* the lines printed so far
    phase,        \* "start", "loop" or "returned"; the step of main
    \* ---- main of analyze_dataset_and_create_splits.py ------------------
    original_exists, \* os.path.exists(original_dir)
    masks_exists, \* os.path.exists(mask_dir)
    stats,        \* what generate_statistics_report returned
    output_files, \* the files written to output_dir, oldest first
    exit_status,  \* exit status of the process, "running" until it ends
    \* ---- make_gradcam_heatmap ------------------------------------------
    conv_output,  \* last_conv_layer_output[0], positions x channels
    grads,        \* tape.gradient(class_channel, last_conv_layer_output)
    heatmap,      \* what make_gradcam_heatmap returned
    \* ---- create_overlay ------------------------------------------------
    img,          \* the original image, one value per pixel
    jet_heatmap,  \* the color-mapped heatmap, one value per pixel
    alpha,        \* the weight of the heatmap
    overlay,      \* what create_overlay returned
    \* ---- main of generate_gradcam_figure.py ----------------------------
    models,       \* the loaded classifiers
    examples,     \* the selected examples of the classifier at hand
    figures,      \* the figures saved so far
    \* ---- repeated calls ------------------------------------------------
    selections,   \* outcomes of the determine_optimal_thresholds calls so far
    \* ---- the severity classes of the scripts ---------------------------
    assigned,     \* per code path, the class and the class range given to percentage
    \* ---- calls of make_gradcam_heatmap on a batch ----------------------
    calls,        \* the calls so far, each with its local variables
    \* ---- main of run_complete_pipeline.py ------------------------------
    required_files, \* the required training files that exist
    steps         \* the commands run so far, each with its outcome

splitVars == <<labels, ratios, np_random, split, runs, seedings>>
threshVars == <<percentages, method, selector, result_class>>
maskVars == <<mask, percentage>>
extractVars == <<mask_dir, mask_files, loop_i, results, stdout, phase>>
mainVars == <<original_exists, masks_exists, stats, output_files, exit_status>>
heatmapVars == <<conv_output, grads, heatmap>>
overlayVars == <<img, jet_heatmap, alpha, overlay>>
figureVars == <<models, examples, figures>>
lateVars == <<selections, assigned, calls, required_files, steps>>
otherVars == <<mainVars, heatmapVars, overlayVars, figureVars, lateVars>>
vars == <<labels, ratios, tape, np_random, split, runs, seedings,
          percentages, method, selector, result_class,
          mask, percentage, mask_dir, mask_files, loop_i, results, stdout, phase,
          original_exists, masks_exists, stats, output_files, exit_status,
          conv_output, grads, heatmap, img, jet_heatmap, alpha, overlay,
          models, examples, figures, selections, assigned, calls,
          required_files, steps>>

\* ------------------------------------------------------------------ bounds
MaxRecords == 9     \* largest number of labeled records
TapeLen == 2        \* period of the modelled draw stream
TapeMax == 1        \* largest value of one draw
MaxRuns == 2        \* calls of the partitioner in one behaviour
MaxDraws == 1       \* draws other code takes from the process-wide generator
MaxPcts == 5        \* largest number of percentages given to the selector
MaxPixels == 3      \* largest number of pixels of a mask
MaxLarge == 60       \* largest size of the large collections, DatasetSize apart
MaxMainFiles == 13   \* largest number of labeled records of a run of main
MaxBadFiles == 1     \* masks of a run of main that are undecodable, or lack the original
MaxPositions == 2    \* positions of the last convolutional layer's output
MaxChannels == 2     \* channels of the last convolutional layer's output
MaxExamples == 2     \* examples selected for one classifier
MaxCalls == 2        \* calls of make_gradcam_heatmap on one batch
MaxFiles == 3       \* largest number of files in the mask directory

\* --------------------------------------------------------------- constants
RANDOM_SEED == 42
None == "None"
Classes == {0, 1, 2}

\* ----------------------------------------------------------------- helpers
Min2(a, b) == IF a < b THEN a ELSE b
Abs(a) == IF a < 0 THEN 0 - a ELSE a
CeilDiv(a, b) == IF a % b = 0 THEN a \div b ELSE (a \div b) + 1

RECURSIVE SumSeq(_)
SumSeq(s) == IF Len(s) = 0 THEN 0 ELSE Head(s) + SumSeq(Tail(s))

SetMax(S) == CHOOSE x \in S : \A y \in S : y <= x
SetMin(S) == CHOOSE x \in S : \A y \in S : x <= y

RECURSIVE SortedAsc(_)
SortedAsc(S) == IF S = {} THEN <<>> ELSE <<SetMin(S)>> \o SortedAsc(S \ {SetMin(S)})

RECURSIVE SortedDesc(_)
SortedDesc(S) == IF S = {} THEN <<>> ELSE <<SetMax(S)>> \o SortedDesc(S \ {SetMax(S)})

RECURSIVE GCD(_, _)
GCD(a, b) == IF b = 0 THEN a ELSE GCD(b, a % b)

\* Exact rationals n/d in lowest terms, d > 0.
Rat(n, d) ==
    LET g == GCD(Abs(n), Abs(d))
        sgn == IF d < 0 THEN 0 - 1 ELSE 1
    IN [n |-> sgn * (n \div g), d |-> sgn * (d \div g)]

RatLess(a, b) == a.n * b.d < b.n * a.d
RatAdd(a, b) == Rat(a.n * b.d + b.n * a.d, a.d * b.d)
RatHalf(a) == Rat(a.n, 2 * a.d)
\* |x - c| for an integer x and a rational c
RatDist(x, c) == Rat(Abs(x * c.d - c.n), c.d)

\* All sequences over S of length at most n.
RECURSIVE SeqsUpTo(_, _)
SeqsUpTo(S, n) ==
    IF n = 0 THEN {<<>>}
    ELSE LET shorter == SeqsUpTo(S, n - 1)
         IN shorter \cup {Append(q, x) : q \in {t \in shorter : Len(t) = n - 1}, x \in S}

Range(s) == {s[i] : i \in 1..Len(s)}

\* F applied to the value of x, x evaluated once.
Bind(x, F(_)) == CHOOSE out \in {F(y) : y \in {x}} : TRUE
RemoveAt(s, j) == SubSeq(s, 1, j - 1) \o SubSeq(s, j + 1, Len(s))
Prefix(s, n) == SubSeq(s, 1, n)
Suffix(s, n) == SubSeq(s, n + 1, Len(s))

\* ------------------------------------------------------- random generator
\* One draw of the stream at position pos.
Cell(pos) == tape[((pos - 1) % TapeLen) + 1]

\* rng.permutation(s): the permutation of s selected by one draw k
\* (k read as a factorial-base index; index 0 is the identity).
RECURSIVE PermOf(_, _)
PermOf(s, k) ==
    IF Len(s) = 0 THEN <<>>
    ELSE IF k = 0 THEN s
    ELSE LET j == (k % Len(s)) + 1
         IN <<s[j]>> \o PermOf(RemoveAt(s, j), k \div Len(s))

\* check_random_state(random_state): <<seed>> seeds a fresh generator
\* (position 1 of the seed's stream); <<>>, Python's None, is the
\* process-wide generator, now at gpos.
check_random_state(random_state, gpos) ==
    IF random_state = <<>> THEN gpos ELSE 1

\* ------------------------------------------------ sklearn train_test_split
\* _approximate_mode(class_counts, n_draws, rng): the per-class draw counts
\* closest to the class proportions.  cc is the sequence of class counts;
\* classes with the same fractional remainder are tie-broken by rng.choice.
RECURSIVE AddRemainders(_, _, _, _, _)
AddRemainders(floored, need, values, rem, pos) ==
    IF need = 0 \/ Len(values) = 0
    THEN [counts |-> floored, pos |-> pos]
    ELSE LET inds == SortedAsc({c \in 1..Len(rem) : rem[c] = Head(values)})
             add_now == Min2(Len(inds), need)
             chosen == Range(Prefix(PermOf(inds, Cell(pos)), add_now))
             bumped == [c \in 1..Len(floored) |->
                          IF c \in chosen THEN floored[c] + 1 ELSE floored[c]]
         IN AddRemainders(bumped, need - add_now, Tail(values), rem, pos + 1)

\* Draw counts that ignore the class proportions: the classes are filled
\* one after the other.
RECURSIVE FillInOrder(_, _)
FillInOrder(cc, n_draws) ==
    IF Len(cc) = 0 THEN <<>>
    ELSE <<Min2(Head(cc), n_draws)>>
         \o FillInOrder(Tail(cc), n_draws - Min2(Head(cc), n_draws))

approximate_mode_unstratified(cc, n_draws, pos) ==
    [counts |-> FillInOrder(cc, n_draws), pos |-> pos]

approximate_mode(cc, n_draws, pos) ==
    LET total == SumSeq(cc)
        floored == [c \in 1..Len(cc) |-> (cc[c] * n_draws) \div total]
        rem == [c \in 1..Len(cc) |-> (cc[c] * n_draws) % total]
        need_to_add == n_draws - SumSeq(floored)
    IN IF need_to_add > 0
       THEN AddRemainders(floored, need_to_add, SortedDesc(Range(rem)), rem, pos)
       ELSE [counts |-> floored, pos |-> pos]

\* The loop of StratifiedShuffleSplit._iter_indices over the classes: each
\* class's positions are permuted, the first n_i go to train and the next
\* t_i to test.
RECURSIVE ClassLoopNoOffset(_, _, _, _, _, _, _)
ClassLoopNoOffset(k, class_indices, n_i, t_i, pos, train, test) ==
    IF k > Len(class_indices)
    THEN [train |-> train, test |-> test, pos |-> pos]
    ELSE LET perm == PermOf(class_indices[k], Cell(pos))
         IN ClassLoopNoOffset(k + 1, class_indices, n_i, t_i, pos + 1,
                              train \o Prefix(perm, n_i[k]),
                              test \o Prefix(perm, t_i[k]))

RECURSIVE ClassLoop(_, _, _, _, _, _, _)
ClassLoop(k, class_indices, n_i, t_i, pos, train, test) ==
    IF k > Len(class_indices)
    THEN [train |-> train, test |-> test, pos |-> pos]
    ELSE LET perm == PermOf(class_indices[k], Cell(pos))
         IN ClassLoop(k + 1, class_indices, n_i, t_i, pos + 1,
                      train \o Prefix(perm, n_i[k]),
                      test \o Prefix(Suffix(perm, n_i[k]), t_i[k]))

\* Result of one train_test_split call; gpos is the position of the
\* process-wide generator after the call.
SplitOk(train, test, gpos) ==
    [ok |-> TRUE, error |-> None, train |-> train, test |-> test, gpos |-> gpos]

SplitError(name, gpos) ==
    [ok |-> FALSE, error |-> name, train |-> <<>>, test |-> <<>>, gpos |-> gpos]

\* The stratified split is written as a chain of steps, each handing the
\* values computed so far to the next one.

\* Last step of _iter_indices: rng.permutation of the train and of the test
\* positions; train_test_split then indexes arr with them.
permute_and_index(arr, picked, random_state, gpos) ==
    SplitOk([k \in 1..Len(picked.train) |->
                arr[PermOf(picked.train, Cell(picked.pos))[k]]],
            [k \in 1..Len(picked.test) |->
                arr[PermOf(picked.test, Cell(picked.pos + 1))[k]]],
            IF random_state = <<>> THEN picked.pos + 2 ELSE gpos)

\* t_i = _approximate_mode(class_counts - n_i, n_test, rng), then the loop
\* over the classes.
draw_test_counts(arr, class_indices, remaining, n_test, ni, random_state, gpos) ==
    permute_and_index(arr,
        ClassLoop(1, class_indices, ni.counts,
                  approximate_mode(remaining, n_test, ni.pos).counts,
                  approximate_mode(remaining, n_test, ni.pos).pos, <<>>, <<>>),
        random_state, gpos)

\* n_i = _approximate_mode(class_counts, n_train, rng)
draw_train_counts(arr, class_indices, class_counts, n_test, ni, random_state, gpos) ==
    draw_test_counts(arr, class_indices,
        [k \in 1..Len(class_counts) |-> class_counts[k] - ni.counts[k]],
        n_test, ni, random_state, gpos)

\* StratifiedShuffleSplit._iter_indices: the checks on the class counts.
iter_indices(arr, class_indices, class_counts, n_train, n_test, start, random_state, gpos) ==
    IF \E k \in 1..Len(class_counts) : class_counts[k] < 2
    THEN SplitError("ValueError", gpos)
    ELSE IF n_train < Len(class_counts) \/ n_test < Len(class_counts)
    THEN SplitError("ValueError", gpos)
    ELSE draw_train_counts(arr, class_indices, class_counts, n_test,
                           approximate_mode(class_counts, n_train, start),
                           random_state, gpos)

\* The positions of each class of labs, classes ascending (np.unique and
\* the stable argsort of _iter_indices).
ClassIndices(labs) ==
    LET classes == SortedAsc(Range(labs))
    IN [k \in 1..Len(classes) |->
           SelectSeq([p \in 1..Len(labs) |-> p], LAMBDA p : labs[p] = classes[k])]

\* _validate_shuffle_split: n_test = ceil(test_size * n_samples), n_train
\* the rest, which may not be empty.
validate_shuffle_split(arr, labs, n_test, class_indices, random_state, gpos) ==
    IF Len(arr) - n_test = 0 THEN SplitError("ValueError", gpos)
    ELSE iter_indices(arr, class_indices,
                      [k \in 1..Len(class_indices) |-> Len(class_indices[k])],
                      Len(arr) - n_test, n_test,
                      check_random_state(random_state, gpos), random_state, gpos)

\* train_test_split(arr, test_size = tn/td, stratify = labs, random_state):
\* a float test_size outside (0, 1) is rejected.
train_test_split(arr, tn, td, labs, random_state, gpos) ==
    IF tn <= 0 \/ tn >= td THEN SplitError("ValueError", gpos)
    ELSE validate_shuffle_split(arr, labs, CeilDiv(tn * Len(arr), td),
                                ClassIndices(labs), random_state, gpos)

\* ------------------------------------------ calculate_corroded_percentage
\* A pixel is an (R, G, B) triple; a grayscale pixel has R = G = B.
Gray(v) == <<v, v, v>>

\* Image.convert('L') of one pixel: the ITU-R 601-2 luma transform in
\* 16-bit fixed point.  It is v for Gray(v).
ConvertL(px) == (px[1] * 19595 + px[2] * 38470 + px[3] * 7471 + 32768) \div 65536

\* mask_array > 127
BinarizeCutoff == 127

CorrodedInclusive(v) == v >= BinarizeCutoff

Corroded(v) == v > BinarizeCutoff

\* Python's None as a percentage, and the state before the call.
NoPercentage == [status |-> "None", value |-> Rat(0, 1)]

PendingPercentage == [status |-> "pending", value |-> Rat(0, 1)]

\* calculate_corroded_percentage(mask_path): None when opening or decoding
\* the file raises, else corroded_pixels / total_pixels * 100.
calculate_corroded_percentage(m) ==
    IF ~m.readable THEN NoPercentage
    ELSE LET mask_array == [k \in 1..Len(m.pixels) |-> ConvertL(m.pixels[k])]
             binary_mask == [k \in 1..Len(mask_array) |->
                               IF Corroded(mask_array[k]) THEN 1 ELSE 0]
             total_pixels == Len(binary_mask)
             corroded_pixels == SumSeq(binary_mask)
         IN [status |-> "value", value |-> Rat(corroded_pixels * 100, total_pixels)]

Unreadable == [readable |-> FALSE, pixels |-> <<>>]
Readable(px) == [readable |-> TRUE, pixels |-> px]

PixelValues ==
    {Gray(0), Gray(BinarizeCutoff), Gray(BinarizeCutoff + 1), Gray(255),
     <<255, 0, 0>>, <<0, 255, 0>>}

MaskInputs ==
    {Unreadable} \cup {Readable(px) : px \in SeqsUpTo(PixelValues, MaxPixels) \ {<<>>}}

\* Values of the extractor's variables in specifications that do not use it.
\* Values of the variables of calculate_corroded_percentage in
\* specifications that do not use them.
MaskIdle ==
    /\ mask = Unreadable
    /\ percentage = PendingPercentage

ExtractIdle ==
    /\ mask_dir = <<>>
    /\ mask_files = <<>>
    /\ loop_i = 0
    /\ results = <<>>
    /\ stdout = <<>>
    /\ phase = "idle"

\* Values of the variables of the entry points and of the saliency
\* functions in specifications that do not use them.
NoStats == [status |-> "none"]

Running == 0 - 1

MainIdle ==
    /\ original_exists = TRUE
    /\ masks_exists = TRUE
    /\ stats = NoStats
    /\ output_files = <<>>
    /\ exit_status = Running

HeatmapIdle ==
    /\ conv_output = <<>>
    /\ grads = <<>>
    /\ heatmap = <<>>

OverlayIdle ==
    /\ img = <<>>
    /\ jet_heatmap = <<>>
    /\ alpha = Rat(0, 1)
    /\ overlay = <<>>

FigureIdle ==
    /\ models = <<>>
    /\ examples = <<>>
    /\ figures = <<>>

PipelineIdle ==
    /\ required_files = {}
    /\ steps = <<>>

LateIdle ==
    /\ selections = <<>>
    /\ assigned = <<>>
    /\ calls = <<>>
    /\ PipelineIdle

OtherIdle == MainIdle /\ HeatmapIdle /\ OverlayIdle /\ FigureIdle /\ LateIdle

\* ------------------------------------------------ create_stratified_splits
\* One seeding of a generator with RANDOM_SEED, by the named caller.
Seeding(by) == [by |-> by, seed |-> RANDOM_SEED]

\* np.random.seed(RANDOM_SEED) when the module is loaded.
ImportSeeding == Seeding("np.random.seed")

\* random_state=RANDOM_SEED makes every train_test_split call that gets past
\* its checks seed a generator of its own; outcome.stages counts them.
SplitSeedings(outcome) == [k \in 1..outcome.stages |-> Seeding("train_test_split")]

\* KMeans(random_state=RANDOM_SEED).fit seeds a generator of its own.
SelectorSeedings(m, outcome) ==
    IF m = "kmeans" /\ outcome.status = "returned" THEN <<Seeding("KMeans")>> ELSE <<>>

\* random_state = RANDOM_SEED, the argument of both train_test_split calls.
SplitRandomStateGlobal == <<>>

SplitRandomState == <<RANDOM_SEED>>

\* The tolerance of the ratio assertion, 0.001 = 1 / RatioTolDen.
RatioTolDen == 1000

\* assert abs(train_ratio + val_ratio + test_ratio - 1.0) < 0.001
RatiosUnchecked(r) == TRUE

RatiosSumToOne(r) ==
    Abs(r.train + r.val + r.test - r.den) * RatioTolDen < r.den

Raised(name, stages, gpos) ==
    [outcome |-> [status |-> "raised", error |-> name, stages |-> stages,
                  train_idx |-> <<>>, val_idx |-> <<>>, test_idx |-> <<>>],
     gpos |-> gpos]

Returned(train, val, test, gpos) ==
    [outcome |-> [status |-> "returned", error |-> None, stages |-> 2,
                  train_idx |-> train, val_idx |-> val, test_idx |-> test],
     gpos |-> gpos]

\* The end of create_stratified_splits: the outcome of the second
\* train_test_split.
return_splits(train_idx, second) ==
    IF ~second.ok THEN Raised(second.error, 1, second.gpos)
    ELSE Returned(train_idx, second.train, second.test, second.gpos)

\* The second split with test_size = test_ratio, not adjusted to the
\* remainder.
second_split_unadjusted(labs, r, first) ==
    IF ~first.ok THEN Raised(first.error, 0, first.gpos)
    ELSE Bind(train_test_split(first.test, r.test, r.den,
                               [k \in 1..Len(first.test) |-> labs[first.test[k] + 1]],
                               SplitRandomState, first.gpos),
              LAMBDA second : return_splits(first.train, second))

\* Second split, val vs test, of temp_idx = first.test with
\* test_size = 1 - val_ratio / (val_ratio + test_ratio).
second_split(labs, r, first) ==
    IF ~first.ok THEN Raised(first.error, 0, first.gpos)
    ELSE Bind(train_test_split(first.test, r.test, r.val + r.test,
                               [k \in 1..Len(first.test) |-> labs[first.test[k] + 1]],
                               SplitRandomState, first.gpos),
              LAMBDA second : return_splits(first.train, second))

\* create_stratified_splits(results, train_ratio, val_ratio, test_ratio),
\* with labs the classes of results and r the ratios n/den.  `stages' of an
\* outcome counts the train_test_split calls that completed.
create_stratified_splits(labs, r, gpos) ==
    IF ~RatiosSumToOne(r) THEN Raised("AssertionError", 0, gpos)
    ELSE Bind(train_test_split([k \in 1..Len(labs) |-> k - 1], r.val + r.test,
                               r.den, labs, SplitRandomState, gpos),
              LAMBDA first : second_split(labs, r, first))

\* ------------------------------------------------------ inputs of the split
\* Labels of n0 records of class 0, n1 of class 1 and n2 of class 2, in
\* ascending or in descending class order.
LabelsOf(n0, n1, n2, asc) ==
    [i \in 1..(n0 + n1 + n2) |->
        IF asc THEN (IF i <= n0 THEN 0 ELSE IF i <= n0 + n1 THEN 1 ELSE 2)
        ELSE (IF i <= n2 THEN 2 ELSE IF i <= n2 + n1 THEN 1 ELSE 0)]

LabelInputs ==
    {LabelsOf(c[1], c[2], c[3], asc) :
        c \in {d \in (0..MaxRecords) \X (0..MaxRecords) \X (0..MaxRecords) :
                 d[1] + d[2] + d[3] <= MaxRecords},
        asc \in BOOLEAN}

Ratio(t, v, s, d) == [train |-> t, val |-> v, test |-> s, den |-> d]

\* The default ratios of create_stratified_splits.
DefaultRatios == Ratio(70, 15, 15, 100)

RatioInputs ==
    { DefaultRatios,
      Ratio(2, 1, 1, 4),            \* 0.5, 0.25, 0.25
      Ratio(80, 10, 10, 100),       \* 0.8, 0.1, 0.1
      Ratio(50, 20, 20, 100),       \* sum 0.9
      Ratio(70, 20, 15, 100),       \* sum 1.05
      Ratio(5000, 2500, 2496, 10000), \* sum 0.9996, inside the tolerance
      Ratio(50, 75, -25, 100),      \* negative test ratio
      Ratio(50, -25, 75, 100),      \* negative val ratio
      Ratio(100, 0, 0, 100),        \* val + test = 0
      Ratio(50, 50, 0, 100),        \* test = 0
      Ratio(0, 50, 50, 100) }       \* train = 0

Tapes == [1..TapeLen -> 0..TapeMax]

\* ------------------------------------------------- specification SpecSplit
\* Values of the selector's variables in specifications that do not use it.
ThreshIdle ==
    /\ percentages = <<>>
    /\ method = "domain"
    /\ selector = [status |-> "none", error |-> None,
                   low |-> Rat(0, 1), high |-> Rat(0, 1)]
    /\ result_class = <<>>

NotCalled ==
    [status |-> "none", error |-> None, stages |-> 0,
     train_idx |-> <<>>, val_idx |-> <<>>, test_idx |-> <<>>]

\* Values of the partitioner's variables in specifications that do not use it.
SplitIdle ==
    /\ labels = <<>>
    /\ ratios = DefaultRatios
    /\ np_random = 1
    /\ split = NotCalled
    /\ runs = <<>>
    /\ seedings = <<ImportSeeding>>

InitSplit ==
    /\ labels \in LabelInputs
    /\ ratios \in RatioInputs
    /\ tape \in Tapes
    /\ np_random = 1            \* np.random.seed(RANDOM_SEED) at import
    /\ split = NotCalled
    /\ runs = <<>>
    /\ seedings = <<ImportSeeding>>
    /\ ThreshIdle
    /\ MaskIdle
    /\ ExtractIdle
    /\ OtherIdle

\* One call create_stratified_splits(results, *ratios) by the caller.
CreateStratifiedSplits ==
    /\ Len(runs) < MaxRuns
    /\ \E r \in {create_stratified_splits(labels, ratios, np_random)} :
          /\ split' = r.outcome
          /\ runs' = Append(runs, r.outcome)
          /\ seedings' = seedings \o SplitSeedings(r.outcome)
          /\ np_random' = r.gpos
    /\ UNCHANGED <<labels, ratios, tape>>
    /\ UNCHANGED threshVars
    /\ UNCHANGED maskVars
    /\ UNCHANGED extractVars
    /\ UNCHANGED otherVars

\* Some other code of the process draws from the process-wide generator
\* that the module seeds at import.
NpRandomDraw ==
    /\ np_random <= MaxDraws
    /\ np_random' = np_random + 1
    /\ UNCHANGED <<labels, ratios, tape, split, runs, seedings>>
    /\ UNCHANGED threshVars
    /\ UNCHANGED maskVars
    /\ UNCHANGED extractVars
    /\ UNCHANGED otherVars

NextSplit == CreateStratifiedSplits \/ NpRandomDraw

SpecSplit == InitSplit /\ [][NextSplit]_vars

\* -------------------------------------------------- specification SpecLarge
\* create_stratified_splits on collections of MinLarge records and more,
\* and on the 217 records of the repository's dataset.
MinLarge == 50

DatasetSize == 217

LargeSizes == (MinLarge..MaxLarge) \cup {DatasetSize}

\* Class counts of n records: three equal classes, or one class of three
\* fifths and two of one fifth.
LargeLabelInputs ==
    {LabelsOf(n \div 3, n \div 3, n - 2 * (n \div 3), TRUE) : n \in LargeSizes}
    \cup {LabelsOf(n - 2 * (n \div 5), n \div 5, n \div 5, TRUE) : n \in LargeSizes}

LargeRatioInputs ==
    { DefaultRatios,
      Ratio(80, 10, 10, 100),
      Ratio(83, 6, 11, 100) }

InitLarge ==
    /\ labels \in LargeLabelInputs
    /\ ratios \in LargeRatioInputs
    /\ tape \in Tapes
    /\ np_random = 1
    /\ split = NotCalled
    /\ runs = <<>>
    /\ seedings = <<ImportSeeding>>
    /\ ThreshIdle
    /\ MaskIdle
    /\ ExtractIdle
    /\ OtherIdle

SpecLarge == InitLarge /\ [][NextSplit]_vars

\* ------------------------------------------ determine_optimal_thresholds
ThReturned(low, high) ==
    [status |-> "returned", error |-> None, low |-> low, high |-> high]

ThRaised(name) ==
    [status |-> "raised", error |-> name, low |-> Rat(0, 1), high |-> Rat(0, 1)]

\* np.percentile(a, q), linear interpolation between the two order
\* statistics around the virtual index (n - 1) * q / 100.
percentile(a, q) ==
    LET sorted == SortSeq(a, LAMBDA x, y : x < y)
        n == Len(a)
        i == ((n - 1) * q) \div 100
        r == ((n - 1) * q) % 100
        lower == sorted[i + 1]
        upper == sorted[Min2(i + 2, n)]
    IN Rat(100 * lower + r * (upper - lower), 100)

\* The percentiles of the quantile strategy.
QuantileLow == 33
QuantileHigh == 67

\* The constants of the domain strategy.
DomainLow == 8
DomainHigh == 11

\* k-means++ seeding of KMeans(n_clusters=3): the first center is a drawn
\* point; each further center is drawn among the points at non-zero
\* distance from the centers chosen so far (the first point when there is
\* none).  Returns the three centers.
KMeansInit(X, pos) ==
    LET n == Len(X)
        c1 == X[(Cell(pos) % n) + 1]
        cand2 == SortedAsc({i \in 1..n : X[i] # c1})
        c2 == IF Len(cand2) = 0 THEN X[1]
              ELSE X[cand2[(Cell(pos + 1) % Len(cand2)) + 1]]
        cand3 == SortedAsc({i \in 1..n : X[i] # c1 /\ X[i] # c2})
        c3 == IF Len(cand3) = 0 THEN X[1]
              ELSE X[cand3[(Cell(pos + 2) % Len(cand3)) + 1]]
    IN <<Rat(c1, 1), Rat(c2, 1), Rat(c3, 1)>>

\* The cluster of point x: the nearest center, the lowest index on a tie.
Nearest(x, centers) ==
    CHOOSE k \in 1..Len(centers) :
        \A j \in 1..Len(centers) :
            /\ ~RatLess(RatDist(x, centers[j]), RatDist(x, centers[k]))
            /\ (j < k => RatLess(RatDist(x, centers[k]), RatDist(x, centers[j])))

\* Lloyd iterations until the centers no longer move.  A cluster left
\* without points keeps its center.
RECURSIVE Lloyd(_, _)
Lloyd(X, centers) ==
    LET Members(k) == SelectSeq([p \in 1..Len(X) |-> p],
                                LAMBDA p : Nearest(X[p], centers) = k)
        Mean(pts, k) == IF Len(pts) = 0 THEN centers[k]
                        ELSE Rat(SumSeq([j \in 1..Len(pts) |-> X[pts[j]]]), Len(pts))
        updated == [k \in 1..Len(centers) |-> Bind(Members(k), LAMBDA pts : Mean(pts, k))]
    IN Bind(Prefix(updated, Len(centers)),
            LAMBDA u : IF u = centers THEN centers ELSE Lloyd(X, u))

\* KMeans(n_clusters=3, random_state=RANDOM_SEED, n_init=10).fit(X):
\* cluster_centers_ of the run kept.  Fewer samples than clusters is
\* rejected by fit.
KMeansClusters == 3

kmeans_cluster_centers(X) ==
    Lloyd(X, KMeansInit(X, check_random_state(<<RANDOM_SEED>>, np_random)))

\* The centers in the order KMeans returns them.
SortedCenters_unsorted(c) == c

\* sorted(centers) of three rationals
SortedCenters(c) ==
    LET lo == CHOOSE k \in 1..3 : \A j \in 1..3 :
                 ~RatLess(c[j], c[k]) /\ (j < k => RatLess(c[k], c[j]))
        hi == CHOOSE k \in 1..3 : k # lo /\ \A j \in 1..3 :
                 ~RatLess(c[k], c[j]) /\ (j > k /\ j # lo => RatLess(c[j], c[k]))
        mid == CHOOSE k \in 1..3 : k # lo /\ k # hi
    IN <<c[lo], c[mid], c[hi]>>

\* No branch of the if/elif chain ran: the return statement reads
\* threshold_low, which was never bound.
NoBranchDefault == ThReturned(Rat(DomainLow, 1), Rat(DomainHigh, 1))

NoBranchTaken == ThRaised("UnboundLocalError")

determine_optimal_thresholds(pcts, m) ==
    IF m = "quantile"
    THEN ThReturned(percentile(pcts, QuantileLow), percentile(pcts, QuantileHigh))
    ELSE IF m = "domain"
    THEN ThReturned(Rat(DomainLow, 1), Rat(DomainHigh, 1))
    ELSE IF m = "kmeans"
    THEN IF Len(pcts) < KMeansClusters THEN ThRaised("ValueError")
         ELSE LET centers == SortedCenters(kmeans_cluster_centers(pcts))
              IN ThReturned(RatHalf(RatAdd(centers[1], centers[2])),
                            RatHalf(RatAdd(centers[2], centers[3])))
    ELSE NoBranchTaken

\* ------------------------------------------------------- classify_images
\* The class of one percentage p (the if/elif/else of the loop body).
ClassOfLowInclusive(p, low, high) ==
    IF ~RatLess(low, Rat(p, 1)) THEN 0
    ELSE IF RatLess(Rat(p, 1), high) THEN 1
    ELSE 2

ClassOf(p, low, high) ==
    IF RatLess(Rat(p, 1), low) THEN 0
    ELSE IF RatLess(Rat(p, 1), high) THEN 1
    ELSE 2

classify_images(pcts, low, high) ==
    [i \in 1..Len(pcts) |-> ClassOf(pcts[i], low, high)]

\* ------------------------------------------------ specification SpecThresh
PctValues == {5, DomainLow, DomainHigh}

\* The selector is given a non-empty collection.
PctInputs == SeqsUpTo(PctValues, MaxPcts) \ {<<>>}

MethodInputs == {"quantile", "domain", "kmeans", "median"}

InitThresh ==
    /\ percentages \in PctInputs
    /\ method \in MethodInputs
    /\ tape \in Tapes
    /\ selector = [status |-> "none", error |-> None,
                   low |-> Rat(0, 1), high |-> Rat(0, 1)]
    /\ result_class = <<>>
    /\ SplitIdle
    /\ MaskIdle
    /\ ExtractIdle
    /\ OtherIdle

\* Step 2 of a run: determine_optimal_thresholds(percentages, method).  An
\* exception propagates to the caller and ends the run.
DetermineOptimalThresholds ==
    /\ selector.status = "none"
    /\ selector' = determine_optimal_thresholds(percentages, method)
    /\ seedings' = seedings \o SelectorSeedings(method, selector')
    /\ UNCHANGED <<percentages, method, result_class, tape>>
    /\ UNCHANGED <<labels, ratios, np_random, split, runs>>
    /\ UNCHANGED maskVars
    /\ UNCHANGED extractVars
    /\ UNCHANGED otherVars

\* Step 3 of a run: classify_images(results, threshold_low, threshold_high)
\* with the pair the selector returned.
ClassifyImages ==
    /\ selector.status = "returned"
    /\ result_class = <<>>
    /\ result_class' = classify_images(percentages, selector.low, selector.high)
    /\ UNCHANGED <<percentages, method, selector, tape>>
    /\ UNCHANGED splitVars
    /\ UNCHANGED maskVars
    /\ UNCHANGED extractVars
    /\ UNCHANGED otherVars

\* Step 4 of a run: create_stratified_splits(results) on the labeled
\* records, with the default ratios.
PartitionLabeled ==
    /\ result_class # <<>>
    /\ split.status = "none"
    /\ \E r \in {create_stratified_splits(result_class, DefaultRatios, np_random)} :
          /\ split' = r.outcome
          /\ runs' = Append(runs, r.outcome)
          /\ seedings' = seedings \o SplitSeedings(r.outcome)
          /\ np_random' = r.gpos
    /\ labels' = result_class
    /\ UNCHANGED <<ratios, tape>>
    /\ UNCHANGED threshVars
    /\ UNCHANGED maskVars
    /\ UNCHANGED extractVars
    /\ UNCHANGED otherVars

NextThresh == DetermineOptimalThresholds \/ ClassifyImages \/ PartitionLabeled

SpecThresh == InitThresh /\ [][NextThresh]_vars

\* ------------------------------------------------- specification SpecKMeans
\* Repeated calls determine_optimal_thresholds(percentages, 'kmeans') in one
\* process, other code drawing from the process-wide generator in between.

\* The percentages 1, 2, ..., 30.
UniformPercentages == [k \in 1..30 |-> k]

KMeansInputs ==
    {UniformPercentages} \cup {q \in PctInputs : Len(q) >= KMeansClusters - 1}

InitKMeans ==
    /\ percentages \in KMeansInputs
    /\ method = "kmeans"
    /\ tape \in Tapes
    /\ selector = [status |-> "none", error |-> None,
                   low |-> Rat(0, 1), high |-> Rat(0, 1)]
    /\ result_class = <<>>
    /\ selections = <<>>
    /\ assigned = <<>>
    /\ calls = <<>>
    /\ PipelineIdle
    /\ SplitIdle
    /\ MaskIdle
    /\ ExtractIdle
    /\ MainIdle
    /\ HeatmapIdle
    /\ OverlayIdle
    /\ FigureIdle

\* One call determine_optimal_thresholds(percentages, 'kmeans').
SelectThresholds ==
    /\ Len(selections) < MaxRuns
    /\ selector' = determine_optimal_thresholds(percentages, method)
    /\ selections' = Append(selections, selector')
    /\ seedings' = seedings \o SelectorSeedings(method, selector')
    /\ UNCHANGED <<percentages, method, result_class, tape>>
    /\ UNCHANGED <<labels, ratios, np_random, split, runs>>
    /\ UNCHANGED maskVars
    /\ UNCHANGED extractVars
    /\ UNCHANGED <<mainVars, heatmapVars, overlayVars, figureVars, assigned, calls,
                   required_files, steps>>

NextKMeans == SelectThresholds \/ NpRandomDraw

SpecKMeans == InitKMeans /\ [][NextKMeans]_vars

\* --------------------------------------------------- specification SpecMask
InitMask ==
    /\ mask \in MaskInputs
    /\ percentage = PendingPercentage
    /\ tape = [k \in 1..TapeLen |-> 0]
    /\ ExtractIdle
    /\ SplitIdle
    /\ ThreshIdle
    /\ OtherIdle

\* One call calculate_corroded_percentage(mask_path).
CalculateCorrodedPercentage ==
    /\ percentage.status = "pending"
    /\ percentage' = calculate_corroded_percentage(mask)
    /\ UNCHANGED <<mask, tape>>
    /\ UNCHANGED extractVars
    /\ UNCHANGED splitVars
    /\ UNCHANGED threshVars
    /\ UNCHANGED otherVars

NextMask == CalculateCorrodedPercentage

SpecMask == InitMask /\ [][NextMask]_vars

\* ------------------------------------------------ specification SpecExtract
\* A file of the mask directory: its name (names sort as numbers), whether
\* the name ends in .jpg, whether the corresponding original image exists,
\* and the mask it holds.
File(name, jpg, original, m) ==
    [name |-> name, jpg |-> jpg, original |-> original, mask |-> m]

MaskSamples == {Unreadable, Readable(<<Gray(255)>>), Readable(<<Gray(255), Gray(0)>>)}

\* The directory listings with n files named 1..n, in any listing order.
ListingsOf(n) ==
    {d \in [1..n -> {File(k, j, o, m) : k \in 1..n, j \in BOOLEAN,
                                       o \in BOOLEAN, m \in MaskSamples}] :
        \A a, b \in 1..n : a # b => d[a].name # d[b].name}

DirInputs == UNION {ListingsOf(n) : n \in 0..MaxFiles}

InitExtract ==
    /\ mask_dir \in DirInputs
    /\ mask_files = <<>>
    /\ loop_i = 0
    /\ results = <<>>
    /\ stdout = <<>>
    /\ phase = "start"
    /\ tape = [k \in 1..TapeLen |-> 0]
    /\ MaskIdle
    /\ SplitIdle
    /\ ThreshIdle
    /\ OtherIdle

FileNamed(name) == CHOOSE f \in Range(mask_dir) : f.name = name

Line(msg, arg) == [msg |-> msg, arg |-> arg]

\* The progress line is printed every ProgressEvery files.
ProgressEvery == 50

\* The body of the for loop of analyze_all_images for mask file f, the
\* (n + 1)-th of the list: the records and the printed lines after it.
loop_body_no_continue(f, n, res, out) ==
    LET out1 == IF (n + 1) % ProgressEvery = 0
                THEN Append(out, Line("processed", n + 1)) ELSE out
        out2 == IF ~f.original THEN Append(out1, Line("warning", f.name)) ELSE out1
        pct == calculate_corroded_percentage(f.mask)
    IN IF pct.status = "None"
       THEN [results |-> res, stdout |-> Append(out2, Line("error", f.name))]
       ELSE [results |-> Append(res, [filename |-> f.name, percentage |-> pct.value]),
             stdout |-> out2]

\* The loop body keeping a record, of 0 percent, for a mask that cannot be
\* decoded.
loop_body_keeps_unreadable(f, n, res, out) ==
    LET out1 == IF (n + 1) % ProgressEvery = 0
                THEN Append(out, Line("processed", n + 1)) ELSE out
        pct == calculate_corroded_percentage(f.mask)
    IN IF ~f.original
       THEN [results |-> res, stdout |-> Append(out1, Line("warning", f.name))]
       ELSE IF pct.status = "None"
       THEN [results |-> Append(res, [filename |-> f.name, percentage |-> Rat(0, 1)]),
             stdout |-> Append(out1, Line("error", f.name))]
       ELSE [results |-> Append(res, [filename |-> f.name, percentage |-> pct.value]),
             stdout |-> out1]

loop_body(f, n, res, out) ==
    LET out1 == IF (n + 1) % ProgressEvery = 0
                THEN Append(out, Line("processed", n + 1)) ELSE out
        pct == calculate_corroded_percentage(f.mask)
    IN IF ~f.original
       THEN [results |-> res, stdout |-> Append(out1, Line("warning", f.name))]
       ELSE IF pct.status = "None"
       THEN [results |-> res, stdout |-> Append(out1, Line("error", f.name))]
       ELSE [results |-> Append(res, [filename |-> f.name, percentage |-> pct.value]),
             stdout |-> out1]

\* The .jpg names of the listing, in listing order.
listed_mask_files(dir) ==
    LET jpgs == SelectSeq(dir, LAMBDA g : g.jpg)
    IN [k \in 1..Len(jpgs) |-> jpgs[k].name]

\* The mask files taken in the order of the directory listing.
unsorted_mask_files(dir) == listed_mask_files(dir)

\* sorted([f for f in os.listdir(mask_dir) if f.endswith('.jpg')])
sorted_mask_files(dir) == SortSeq(listed_mask_files(dir), LAMBDA x, y : x < y)

\* analyze_all_images up to the loop: list, filter and sort the mask files.
ListMaskFiles ==
    /\ phase = "start"
    /\ mask_files' = sorted_mask_files(mask_dir)
    /\ results' = <<>>
    /\ loop_i' = 0
    /\ stdout' = Append(stdout, Line("found", Cardinality({g \in Range(mask_dir) : g.jpg})))
    /\ phase' = "loop"
    /\ UNCHANGED <<mask_dir, tape>>
    /\ UNCHANGED maskVars
    /\ UNCHANGED splitVars
    /\ UNCHANGED threshVars
    /\ UNCHANGED otherVars

\* One iteration of the loop over mask_files.
AnalyzeImage ==
    /\ phase = "loop"
    /\ loop_i < Len(mask_files)
    /\ \E r \in {loop_body(FileNamed(mask_files[loop_i + 1]), loop_i, results, stdout)} :
          /\ results' = r.results
          /\ stdout' = r.stdout
    /\ loop_i' = loop_i + 1
    /\ UNCHANGED <<mask_dir, mask_files, phase, tape>>
    /\ UNCHANGED maskVars
    /\ UNCHANGED splitVars
    /\ UNCHANGED threshVars
    /\ UNCHANGED otherVars

\* The loop is over: print the number of records and return them.
ReturnResults ==
    /\ phase = "loop"
    /\ loop_i = Len(mask_files)
    /\ stdout' = Append(stdout, Line("analyzed", Len(results)))
    /\ phase' = "returned"
    /\ UNCHANGED <<mask_dir, mask_files, loop_i, results, tape>>
    /\ UNCHANGED maskVars
    /\ UNCHANGED splitVars
    /\ UNCHANGED threshVars
    /\ UNCHANGED otherVars

NextExtract == ListMaskFiles \/ AnalyzeImage \/ ReturnResults

SpecExtract == InitExtract /\ [][NextExtract]_vars

\* ------------------------------------------------ specification SpecProcess
\* generate_figure2_real_images.py: the second entry point that extracts
\* percentages.  Its calculate_corroded_percentage returns 0.0 when opening
\* or decoding the file raises.
fig2_calculate_corroded_percentage(m) ==
    IF ~m.readable THEN [status |-> "value", value |-> Rat(0, 1)]
    ELSE calculate_corroded_percentage(m)

\* classify_image(percentage) of generate_figure2_real_images.py.
classify_image(p) ==
    IF RatLess(p, Rat(DomainLow, 1)) THEN 0
    ELSE IF RatLess(p, Rat(DomainHigh, 1)) THEN 1
    ELSE 2

\* The body of the for loop of process_all_images for mask file f.
process_loop_body(f, res, out) ==
    LET pct == fig2_calculate_corroded_percentage(f.mask)
        out1 == IF ~f.mask.readable THEN Append(out, Line("error", f.name)) ELSE out
    IN IF ~f.original
       THEN [results |-> res, stdout |-> out]
       ELSE [results |-> Append(res, [filename |-> f.name, percentage |-> pct.value,
                                      class |-> classify_image(pct.value)]),
             stdout |-> out1]

\* process_all_images up to the loop: list and filter the mask files, in
\* the order of the directory listing.
ProcessListMaskFiles ==
    /\ phase = "start"
    /\ mask_files' = [k \in 1..Len(SelectSeq(mask_dir, LAMBDA g : g.jpg)) |->
                         SelectSeq(mask_dir, LAMBDA g : g.jpg)[k].name]
    /\ results' = <<>>
    /\ loop_i' = 0
    /\ stdout' = Append(stdout, Line("found", Len(SelectSeq(mask_dir, LAMBDA g : g.jpg))))
    /\ phase' = "loop"
    /\ UNCHANGED <<mask_dir, tape>>
    /\ UNCHANGED maskVars
    /\ UNCHANGED splitVars
    /\ UNCHANGED threshVars
    /\ UNCHANGED otherVars

\* One iteration of the loop over mask_files.
ProcessImage ==
    /\ phase = "loop"
    /\ loop_i < Len(mask_files)
    /\ \E r \in {process_loop_body(FileNamed(mask_files[loop_i + 1]), results, stdout)} :
          /\ results' = r.results
          /\ stdout' = r.stdout
    /\ loop_i' = loop_i + 1
    /\ UNCHANGED <<mask_dir, mask_files, phase, tape>>
    /\ UNCHANGED maskVars
    /\ UNCHANGED splitVars
    /\ UNCHANGED threshVars
    /\ UNCHANGED otherVars

\* The loop is over: return the records.
ProcessReturn ==
    /\ phase = "loop"
    /\ loop_i = Len(mask_files)
    /\ phase' = "returned"
    /\ UNCHANGED <<mask_dir, mask_files, loop_i, results, stdout, tape>>
    /\ UNCHANGED maskVars
    /\ UNCHANGED splitVars
    /\ UNCHANGED threshVars
    /\ UNCHANGED otherVars

NextProcess == ProcessListMaskFiles \/ ProcessImage \/ ProcessReturn

SpecProcess == InitExtract /\ [][NextProcess]_vars

\* ------------------------------------------------ specification SpecClasses
\* The code paths that give a percentage its severity class, or show the
\* class with its range of percentages.

\* A class range low <= p < high; an end that is not there is Unbounded.
Unbounded == 0 - 1

ClassRange(low, high) == [low |-> low, high |-> high]

\* The ranges of the classes 0, 1, 2 that thresholds low, high make.
ThresholdRanges(low, high) ==
    <<ClassRange(Unbounded, low), ClassRange(low, high), ClassRange(high, Unbounded)>>

\* class_names of generate_sample_images_figure.py
SampleClassNames ==
    <<ClassRange(Unbounded, 10), ClassRange(10, 30), ClassRange(30, Unbounded)>>

\* class_names of generate_gradcam_figure.py
GradcamClassNames ==
    <<ClassRange(Unbounded, 8), ClassRange(8, 11), ClassRange(11, Unbounded)>>

\* class_names of generate_figure2_real_images.py
Figure2ClassNames ==
    <<ClassRange(Unbounded, 8), ClassRange(8, 11), ClassRange(11, Unbounded)>>

\* What one code path gives a percentage: the class, and the range of
\* percentages it states or tests for that class.
Assigned(path, class, ranges) == [path |-> path, class |-> class, range |-> ranges[class + 1]]

Paths == {"classify_images", "classify_image", "sample_images_figure",
          "gradcam_figure", "figure2"}

AssignedPaths == {assigned[k].path : k \in 1..Len(assigned)}

PercentInputs == 0..100

InitClasses ==
    /\ percentage \in PercentInputs
    /\ mask = Unreadable
    /\ assigned = <<>>
    /\ selections = <<>>
    /\ calls = <<>>
    /\ PipelineIdle
    /\ tape = [k \in 1..TapeLen |-> 0]
    /\ SplitIdle
    /\ ThreshIdle
    /\ ExtractIdle
    /\ MainIdle
    /\ HeatmapIdle
    /\ OverlayIdle
    /\ FigureIdle

ClassesUnchanged ==
    /\ UNCHANGED <<tape, selections, calls, required_files, steps>>
    /\ UNCHANGED splitVars
    /\ UNCHANGED threshVars
    /\ UNCHANGED maskVars
    /\ UNCHANGED extractVars
    /\ UNCHANGED <<mainVars, heatmapVars, overlayVars, figureVars>>

\* classify_images with the thresholds of main, 8.0 and 11.0.
LabelRecord ==
    /\ "classify_images" \notin AssignedPaths
    /\ assigned' = Append(assigned,
          Assigned("classify_images", ClassOf(percentage, Rat(DomainLow, 1), Rat(DomainHigh, 1)),
                   ThresholdRanges(DomainLow, DomainHigh)))
    /\ ClassesUnchanged

\* classify_image of generate_figure2_real_images.py.
ClassifyImage ==
    /\ "classify_image" \notin AssignedPaths
    /\ assigned' = Append(assigned,
          Assigned("classify_image", classify_image(Rat(percentage, 1)),
                   ThresholdRanges(DomainLow, DomainHigh)))
    /\ ClassesUnchanged

\* generate_sample_images_figure.py shows the record in the row of its
\* 'class' in dataset_splits_files.json, under class_names[class].
ShowInSampleFigure ==
    /\ "classify_images" \in AssignedPaths
    /\ "sample_images_figure" \notin AssignedPaths
    /\ assigned' = Append(assigned,
          Assigned("sample_images_figure",
                   ClassOf(percentage, Rat(DomainLow, 1), Rat(DomainHigh, 1)),
                   SampleClassNames))
    /\ ClassesUnchanged

\* generate_figure8 titles the example with class_names[true_class].
ShowInGradcamFigure ==
    /\ "classify_images" \in AssignedPaths
    /\ "gradcam_figure" \notin AssignedPaths
    /\ assigned' = Append(assigned,
          Assigned("gradcam_figure",
                   ClassOf(percentage, Rat(DomainLow, 1), Rat(DomainHigh, 1)),
                   GradcamClassNames))
    /\ ClassesUnchanged

\* generate_figure2_real_images.py shows the image in the row of its class,
\* under class_names[class].
ShowInFigure2 ==
    /\ "classify_image" \in AssignedPaths
    /\ "figure2" \notin AssignedPaths
    /\ assigned' = Append(assigned,
          Assigned("figure2", classify_image(Rat(percentage, 1)), Figure2ClassNames))
    /\ ClassesUnchanged

NextClasses ==
    \/ LabelRecord
    \/ ClassifyImage
    \/ ShowInSampleFigure
    \/ ShowInGradcamFigure
    \/ ShowInFigure2

SpecClasses == InitClasses /\ [][NextClasses]_vars

\* --------------------------------------------------- specification SpecMain
\* main() of analyze_dataset_and_create_splits.py, run as a script.

\* analyze_all_images(original_dir, mask_dir) as one call: the loop over
\* the sorted mask files, from the n-th on.
RECURSIVE analyze_loop(_, _, _, _)
analyze_loop(files, n, res, out) ==
    IF n >= Len(files) THEN [results |-> res, stdout |-> out]
    ELSE Bind(loop_body(files[n + 1], n, res, out),
              LAMBDA r : analyze_loop(files, n + 1, r.results, r.stdout))

analyze_all_images(dir, out) ==
    Bind(SortSeq(SelectSeq(dir, LAMBDA g : g.jpg), LAMBDA a, b : a.name < b.name),
         LAMBDA files :
            Bind(analyze_loop(files, 0, <<>>, Append(out, Line("found", Len(files)))),
                 LAMBDA r : [results |-> r.results,
                             stdout |-> Append(r.stdout, Line("analyzed", Len(r.results)))]))

\* classify_images on records whose percentage is a fraction.
classify_record(v, low, high) ==
    IF RatLess(v, low) THEN 0
    ELSE IF RatLess(v, high) THEN 1
    ELSE 2

RatMin(S) == CHOOSE x \in S : \A y \in S : ~RatLess(y, x)
RatMax(S) == CHOOSE x \in S : \A y \in S : ~RatLess(x, y)

\* min(..., default=0) and max(..., default=0) over the percentages of a class
MinDefault(S) == IF S = {} THEN Rat(0, 1) ELSE RatMin(S)
MaxDefault(S) == IF S = {} THEN Rat(0, 1) ELSE RatMax(S)

\* dict(Counter(seq)): the values that occur, each with its number of
\* occurrences.
Counter(seq) ==
    [v \in Range(seq) |-> Cardinality({k \in 1..Len(seq) : seq[k] = v})]

\* One entry of stats['class_distribution'].
class_entry(res, c) ==
    [count |-> Cardinality({k \in 1..Len(res) : res[k].class = c}),
     percentage |-> Rat(Cardinality({k \in 1..Len(res) : res[k].class = c}) * 100, Len(res)),
     min_corrosion |-> MinDefault({res[k].percentage : k \in {j \in 1..Len(res) : res[j].class = c}}),
     max_corrosion |-> MaxDefault({res[k].percentage : k \in {j \in 1..Len(res) : res[j].class = c}})]

\* One entry of stats['splits'].
split_entry(res, idx) ==
    [size |-> Len(idx),
     percentage |-> Rat(Len(idx) * 100, Len(res)),
     class_distribution |-> Counter([k \in 1..Len(idx) |-> res[idx[k] + 1].class])]

\* generate_statistics_report(results, train_idx, val_idx, test_idx,
\* threshold_low, threshold_high).  np.min of an empty list raises.  Of
\* stats['dataset'] the size and the extremes are modelled.
generate_statistics_report(res, train_idx, val_idx, test_idx, low, high) ==
    IF Len(res) = 0 THEN [status |-> "raised", error |-> "ValueError"]
    ELSE [status |-> "returned",
          dataset |-> [total_images |-> Len(res),
                       min_percentage |-> RatMin({res[k].percentage : k \in 1..Len(res)}),
                       max_percentage |-> RatMax({res[k].percentage : k \in 1..Len(res)})],
          thresholds |-> [threshold_low |-> low, threshold_high |-> high],
          class_distribution |-> [c \in Classes |-> class_entry(res, c)],
          splits |-> [train |-> split_entry(res, train_idx),
                      validation |-> split_entry(res, val_idx),
                      test |-> split_entry(res, test_idx)],
          reproducibility |-> [random_seed |-> RANDOM_SEED,
                               split_ratios |-> DefaultRatios]]

\* The exit status of a script whose main returned, and of one ended by
\* an uncaught exception.
ExitReturned == 0
ExitUncaught == 1

\* Masks of 0, 10 and 100 percent.
DarkMask == Readable(<<Gray(0)>>)
ModerateMask == Readable(<<Gray(255)>> \o [k \in 1..9 |-> Gray(0)])
WhiteMask == Readable(<<Gray(255)>>)

\* A mask directory of d dark, m moderate and w white masks, u masks that
\* cannot be decoded and x masks without original image.
MainDir(d, m, w, u, x) ==
    [k \in 1..(d + m + w + u + x) |->
        File(k, TRUE, k <= d + m + w + u,
             IF k <= d THEN DarkMask
             ELSE IF k <= d + m THEN ModerateMask
             ELSE IF k <= d + m + w THEN WhiteMask
             ELSE IF k <= d + m + w + u THEN Unreadable
             ELSE DarkMask)]

MainDirInputs ==
    {MainDir(c[1], c[2], c[3], u, x) :
        c \in {t \in (0..MaxMainFiles) \X (0..MaxMainFiles) \X (0..MaxMainFiles) :
                 t[1] + t[2] + t[3] <= MaxMainFiles},
        u \in 0..MaxBadFiles, x \in 0..MaxBadFiles}

InitMain ==
    /\ original_exists \in BOOLEAN
    /\ masks_exists \in BOOLEAN
    /\ mask_dir \in MainDirInputs
    /\ tape \in Tapes
    /\ mask_files = <<>>
    /\ loop_i = 0
    /\ results = <<>>
    /\ stdout = <<>>
    /\ phase = "start"
    /\ stats = NoStats
    /\ output_files = <<>>
    /\ exit_status = Running
    /\ SplitIdle
    /\ ThreshIdle
    /\ MaskIdle
    /\ HeatmapIdle
    /\ OverlayIdle
    /\ FigureIdle
    /\ LateIdle

\* What no step of main touches.
MainUnchanged ==
    /\ UNCHANGED <<original_exists, masks_exists, mask_dir, mask_files, loop_i, tape,
                   ratios, method>>
    /\ UNCHANGED maskVars
    /\ UNCHANGED heatmapVars
    /\ UNCHANGED overlayVars
    /\ UNCHANGED figureVars
    /\ UNCHANGED lateVars

\* The checks of the two directories: main prints an error and returns.
MainCheckDirs ==
    /\ phase = "start"
    /\ IF ~original_exists
       THEN /\ stdout' = Append(stdout, Line("ERROR: Directory not found", "original"))
            /\ exit_status' = ExitReturned
            /\ phase' = "exited"
       ELSE IF ~masks_exists
       THEN /\ stdout' = Append(stdout, Line("ERROR: Directory not found", "masks"))
            /\ exit_status' = ExitReturned
            /\ phase' = "exited"
       ELSE /\ phase' = "step1"
            /\ UNCHANGED <<stdout, exit_status>>
    /\ UNCHANGED <<results, stats, output_files, percentages, selector, result_class>>
    /\ UNCHANGED <<labels, np_random, split, runs, seedings>>
    /\ MainUnchanged

\* Step 1: analyze_all_images; main returns when there is no record.
MainAnalyze ==
    /\ phase = "step1"
    /\ \E r \in {analyze_all_images(mask_dir, stdout)} :
          /\ results' = r.results
          /\ IF Len(r.results) = 0
             THEN /\ stdout' = Append(r.stdout, Line("ERROR: No images found!", 0))
                  /\ exit_status' = ExitReturned
                  /\ phase' = "exited"
             ELSE /\ stdout' = r.stdout
                  /\ phase' = "step2"
                  /\ UNCHANGED exit_status
    /\ UNCHANGED <<stats, output_files, percentages, selector, result_class>>
    /\ UNCHANGED <<labels, np_random, split, runs, seedings>>
    /\ MainUnchanged

\* Step 2: the quantile and the domain thresholds are computed and
\* printed; the pair that is used is 8.0, 11.0.
MainThresholds ==
    /\ phase = "step2"
    /\ percentages' = [k \in 1..Len(results) |-> results[k].percentage]
    /\ selector' = ThReturned(Rat(DomainLow, 1), Rat(DomainHigh, 1))
    /\ phase' = "step3"
    /\ UNCHANGED <<results, stdout, exit_status, stats, output_files, result_class>>
    /\ UNCHANGED <<labels, np_random, split, runs, seedings>>
    /\ MainUnchanged

\* Step 3: classify_images sets r['class'] of every record.
MainClassify ==
    /\ phase = "step3"
    /\ result_class' = [k \in 1..Len(results) |->
                          classify_record(results[k].percentage, selector.low, selector.high)]
    /\ phase' = "step4"
    /\ UNCHANGED <<results, stdout, exit_status, stats, output_files, percentages, selector>>
    /\ UNCHANGED <<labels, np_random, split, runs, seedings>>
    /\ MainUnchanged

\* A main that opens dataset_splits_indices.json for writing before it calls
\* create_stratified_splits.
MainSplit_opening_index_file ==
    /\ phase = "step4"
    /\ \E r \in {create_stratified_splits(result_class, DefaultRatios, np_random)} :
          /\ split' = r.outcome
          /\ runs' = Append(runs, r.outcome)
          /\ seedings' = seedings \o SplitSeedings(r.outcome)
          /\ np_random' = r.gpos
          /\ IF r.outcome.status = "raised"
             THEN /\ exit_status' = ExitUncaught
                  /\ phase' = "exited"
             ELSE /\ phase' = "step5"
                  /\ UNCHANGED exit_status
    /\ labels' = result_class
    /\ output_files' = Append(output_files, "dataset_splits_indices.json")
    /\ UNCHANGED <<results, stdout, stats, percentages, selector, result_class>>
    /\ MainUnchanged

\* Step 4: create_stratified_splits(results); an exception is not caught.
MainSplit ==
    /\ phase = "step4"
    /\ \E r \in {create_stratified_splits(result_class, DefaultRatios, np_random)} :
          /\ split' = r.outcome
          /\ runs' = Append(runs, r.outcome)
          /\ seedings' = seedings \o SplitSeedings(r.outcome)
          /\ np_random' = r.gpos
          /\ IF r.outcome.status = "raised"
             THEN /\ exit_status' = ExitUncaught
                  /\ phase' = "exited"
             ELSE /\ phase' = "step5"
                  /\ UNCHANGED exit_status
    /\ labels' = result_class
    /\ UNCHANGED <<results, stdout, stats, output_files, percentages, selector, result_class>>
    /\ MainUnchanged

\* The records as generate_statistics_report reads them.
Labeled ==
    [k \in 1..Len(results) |->
        [percentage |-> results[k].percentage, class |-> result_class[k]]]

\* Step 5: generate_statistics_report, then dataset_statistics.json.
MainReport ==
    /\ phase = "step5"
    /\ stats' = generate_statistics_report(Labeled, split.train_idx, split.val_idx,
                                           split.test_idx, selector.low, selector.high)
    /\ output_files' = Append(output_files, "dataset_statistics.json")
    /\ phase' = "step6"
    /\ UNCHANGED <<results, stdout, exit_status, percentages, selector, result_class>>
    /\ UNCHANGED <<labels, np_random, split, runs, seedings>>
    /\ MainUnchanged

\* Step 6: save_splits_to_files.
MainSave ==
    /\ phase = "step6"
    /\ output_files' = output_files \o <<"dataset_splits_indices.json",
                                         "dataset_splits_files.json">>
    /\ phase' = "step7"
    /\ UNCHANGED <<results, stdout, exit_status, stats, percentages, selector, result_class>>
    /\ UNCHANGED <<labels, np_random, split, runs, seedings>>
    /\ MainUnchanged

\* Step 7: plot_distribution_analysis, print_summary and the end of main.
MainPlot ==
    /\ phase = "step7"
    /\ output_files' = Append(output_files, "dataset_distribution_analysis.pdf")
    /\ stdout' = Append(stdout, Line("DATASET ANALYSIS COMPLETE!", 0))
    /\ exit_status' = ExitReturned
    /\ phase' = "exited"
    /\ UNCHANGED <<results, stats, percentages, selector, result_class>>
    /\ UNCHANGED <<labels, np_random, split, runs, seedings>>
    /\ MainUnchanged

NextMain ==
    \/ MainCheckDirs
    \/ MainAnalyze
    \/ MainThresholds
    \/ MainClassify
    \/ MainSplit
    \/ MainReport
    \/ MainSave
    \/ MainPlot

SpecMain == InitMain /\ [][NextMain]_vars

\* ------------------------------------------------- specification SpecReport
\* create_stratified_splits called with ratios of the caller's choice, then
\* generate_statistics_report on its partition.

\* A record of class c: 0, 10 or 100 percent.
RecordOfClass(k, c) ==
    [filename |-> k,
     percentage |-> IF c = 0 THEN Rat(0, 1) ELSE IF c = 1 THEN Rat(10, 1) ELSE Rat(100, 1)]

ReportLabelInputs == {l \in LabelInputs : Len(l) >= MaxRecords - 1}

ReportRatioInputs == {DefaultRatios, Ratio(80, 10, 10, 100), Ratio(2, 1, 1, 4)}

InitReport ==
    /\ labels \in ReportLabelInputs
    /\ ratios \in ReportRatioInputs
    /\ tape \in Tapes
    /\ np_random = 1
    /\ split = NotCalled
    /\ runs = <<>>
    /\ seedings = <<ImportSeeding>>
    /\ result_class = labels
    /\ results = [k \in 1..Len(labels) |-> RecordOfClass(k, labels[k])]
    /\ percentages = <<>>
    /\ method = "domain"
    /\ selector = ThReturned(Rat(DomainLow, 1), Rat(DomainHigh, 1))
    /\ stats = NoStats
    /\ mask_dir = <<>>
    /\ mask_files = <<>>
    /\ loop_i = 0
    /\ stdout = <<>>
    /\ phase = "idle"
    /\ original_exists = TRUE
    /\ masks_exists = TRUE
    /\ output_files = <<>>
    /\ exit_status = Running
    /\ MaskIdle
    /\ HeatmapIdle
    /\ OverlayIdle
    /\ FigureIdle
    /\ LateIdle

\* generate_statistics_report on the partition of the latest call.
GenerateStatisticsReport ==
    /\ split.status = "returned"
    /\ stats = NoStats
    /\ stats' = generate_statistics_report(Labeled, split.train_idx, split.val_idx,
                                           split.test_idx, selector.low, selector.high)
    /\ UNCHANGED <<tape, original_exists, masks_exists, output_files, exit_status>>
    /\ UNCHANGED splitVars
    /\ UNCHANGED threshVars
    /\ UNCHANGED maskVars
    /\ UNCHANGED extractVars
    /\ UNCHANGED <<heatmapVars, overlayVars, figureVars, lateVars>>

NextReport == CreateStratifiedSplits \/ GenerateStatisticsReport

SpecReport == InitReport /\ [][NextReport]_vars

\* ------------------------------------------------ specification SpecHeatmap
\* make_gradcam_heatmap of generate_gradcam_figure.py.  A float is a
\* fraction (kind "fin"), NaN or an infinity; v is its value, or the sign of
\* the infinity.
Fin(r) == [k |-> "fin", v |-> r]
NaN == [k |-> "nan", v |-> Rat(0, 1)]
Inf(sign) == [k |-> "inf", v |-> Rat(sign, 1)]

Zero == Fin(Rat(0, 1))

RatMul(a, b) == Rat(a.n * b.n, a.d * b.d)
RatDiv(a, b) == Rat(a.n * b.d, a.d * b.n)
RatSign(a) == IF a.n > 0 THEN 1 ELSE IF a.n < 0 THEN 0 - 1 ELSE 0

\* IEEE addition, multiplication and division.
FAdd(a, b) ==
    IF a.k = "nan" \/ b.k = "nan" THEN NaN
    ELSE IF a.k = "inf" /\ b.k = "inf" THEN (IF a.v = b.v THEN a ELSE NaN)
    ELSE IF a.k = "inf" THEN a
    ELSE IF b.k = "inf" THEN b
    ELSE Fin(RatAdd(a.v, b.v))

FMul(a, b) ==
    IF a.k = "nan" \/ b.k = "nan" THEN NaN
    ELSE IF a.k = "inf" \/ b.k = "inf"
    THEN (IF RatSign(a.v) * RatSign(b.v) = 0 THEN NaN
          ELSE Inf(RatSign(a.v) * RatSign(b.v)))
    ELSE Fin(RatMul(a.v, b.v))

FDiv(a, b) ==
    IF a.k = "nan" \/ b.k = "nan" THEN NaN
    ELSE IF a.k = "inf" THEN (IF b.k = "inf" THEN NaN
                               ELSE Inf(IF RatSign(b.v) < 0 THEN 0 - RatSign(a.v)
                                        ELSE RatSign(a.v)))
    ELSE IF b.k = "inf" THEN Zero
    ELSE IF b.v.n = 0 THEN (IF a.v.n = 0 THEN NaN ELSE Inf(RatSign(a.v)))
    ELSE Fin(RatDiv(a.v, b.v))

\* a < b for floats without NaN
FLess(a, b) ==
    IF a.k = "inf" THEN a.v.n < 0 /\ ~(b.k = "inf" /\ b.v.n < 0)
    ELSE IF b.k = "inf" THEN b.v.n > 0
    ELSE RatLess(a.v, b.v)

RECURSIVE FSum(_)
FSum(s) == IF Len(s) = 0 THEN Zero ELSE FAdd(Head(s), FSum(Tail(s)))

\* tf.reduce_mean(grads, axis=(0, 1, 2)): per channel, the mean over the
\* positions.
reduce_mean(g) ==
    [c \in 1..Len(g[1]) |->
        FDiv(FSum([p \in 1..Len(g) |-> g[p][c]]), Fin(Rat(Len(g), 1)))]

\* last_conv_layer_output @ pooled_grads[..., tf.newaxis], squeezed: per
\* position, the channel-weighted sum of the activations.
weighted_sum(conv, pooled) ==
    [p \in 1..Len(conv) |->
        FSum([c \in 1..Len(pooled) |-> FMul(conv[p][c], pooled[c])])]

\* What a maximum over floats does with NaN depends on the kernel: it
\* hands the NaN on ("propagate") or drops it ("ignore").
NanPolicies == {"propagate", "ignore"}

\* tf.maximum(x, 0)
maximum_zero(x, policy) ==
    IF x.k = "nan" THEN (IF policy = "propagate" THEN NaN ELSE Zero)
    ELSE IF FLess(x, Zero) THEN Zero
    ELSE x

\* tf.math.reduce_max(h); without any number, the identity of max.
reduce_max(h, policy) ==
    IF policy = "propagate" /\ \E p \in 1..Len(h) : h[p].k = "nan" THEN NaN
    ELSE IF \A p \in 1..Len(h) : h[p].k = "nan" THEN Inf(0 - 1)
    ELSE LET nums == {h[p] : p \in {q \in 1..Len(h) : h[q].k # "nan"}}
         IN CHOOSE x \in nums : \A y \in nums : ~FLess(x, y)

\* heatmap = tf.maximum(heatmap, 0) / tf.math.reduce_max(heatmap), both
\* operands read from the weighted sum.
normalize(h, policy) ==
    [p \in 1..Len(h) |-> FDiv(maximum_zero(h[p], policy), reduce_max(h, policy))]

\* make_gradcam_heatmap(img_array, model, last_conv_layer_name, pred_index)
\* given the activations and the gradient the model yields for the image.
make_gradcam_heatmap(conv, g, policy) ==
    normalize(weighted_sum(conv, reduce_mean(g)), policy)

ActivationValues == {Fin(Rat(0 - 1, 1)), Zero, Fin(Rat(1, 1))}
GradientValues == {Fin(Rat(0 - 1, 1)), Fin(Rat(1, 1)), NaN}

\* Tensors of np positions and nc channels over the values V.
Tensors(np, nc, V) == [1..np -> [1..nc -> V]]

NoHeatmap == <<>>

InitHeatmap ==
    /\ \E np \in 1..MaxPositions, nc \in 1..MaxChannels :
          /\ conv_output \in Tensors(np, nc, ActivationValues)
          /\ grads \in Tensors(np, nc, GradientValues)
    /\ heatmap = NoHeatmap
    /\ tape = [k \in 1..TapeLen |-> 0]
    /\ SplitIdle
    /\ ThreshIdle
    /\ MaskIdle
    /\ ExtractIdle
    /\ MainIdle
    /\ OverlayIdle
    /\ FigureIdle
    /\ LateIdle

\* One call of make_gradcam_heatmap.
MakeGradcamHeatmap ==
    /\ heatmap = NoHeatmap
    /\ \E policy \in NanPolicies :
          heatmap' = make_gradcam_heatmap(conv_output, grads, policy)
    /\ UNCHANGED <<conv_output, grads, tape>>
    /\ UNCHANGED splitVars
    /\ UNCHANGED threshVars
    /\ UNCHANGED maskVars
    /\ UNCHANGED extractVars
    /\ UNCHANGED mainVars
    /\ UNCHANGED overlayVars
    /\ UNCHANGED figureVars
    /\ UNCHANGED lateVars

NextHeatmap == MakeGradcamHeatmap

SpecHeatmap == InitHeatmap /\ [][NextHeatmap]_vars

\* ------------------------------------------------ specification SpecOverlay
\* create_overlay of generate_gradcam_figure.py, from the color-mapped
\* heatmap on: jet_heatmap and img hold one value of 0..255 per pixel.

\* create_overlay(img, heatmap, alpha=0.4)
DefaultAlpha == Rat(2, 5)

RatSub(a, b) == Rat(a.n * b.d - b.n * a.d, a.d * b.d)

\* astype('uint8') of a value of 0..255: the fraction is cut off.
Uint8(r) == r.n \div r.d

\* keras array_to_img(x), scale=True: x is shifted by its minimum, divided
\* by its maximum unless that is 0, multiplied by 255 and cast to uint8.
array_to_img(x) ==
    LET shifted == [p \in 1..Len(x) |-> RatSub(x[p], RatMin(Range(x)))]
        x_max == RatMax(Range(shifted))
    IN [p \in 1..Len(x) |->
           IF x_max.n = 0 THEN Uint8(shifted[p])
           ELSE Uint8(RatMul(RatDiv(shifted[p], x_max), Rat(255, 1)))]

\* superimposed_img = jet_heatmap * alpha + img
superimpose(jet, a, im) ==
    [p \in 1..Len(im) |-> RatAdd(RatMul(Rat(jet[p], 1), a), Rat(im[p], 1))]

create_overlay(im, jet, a) == array_to_img(superimpose(jet, a, im))

PixelInputs == {0, 100, 255}

AlphaInputs == {Rat(0, 1), DefaultAlpha, Rat(1, 1)}

NoOverlay == <<>>

InitOverlay ==
    /\ \E n \in 1..MaxPixels :
          /\ img \in [1..n -> PixelInputs]
          /\ jet_heatmap \in [1..n -> PixelInputs]
    /\ alpha \in AlphaInputs
    /\ overlay = NoOverlay
    /\ tape = [k \in 1..TapeLen |-> 0]
    /\ SplitIdle
    /\ ThreshIdle
    /\ MaskIdle
    /\ ExtractIdle
    /\ MainIdle
    /\ HeatmapIdle
    /\ FigureIdle
    /\ LateIdle

\* One call of create_overlay.
CreateOverlay ==
    /\ overlay = NoOverlay
    /\ overlay' = create_overlay(img, jet_heatmap, alpha)
    /\ UNCHANGED <<img, jet_heatmap, alpha, tape>>
    /\ UNCHANGED splitVars
    /\ UNCHANGED threshVars
    /\ UNCHANGED maskVars
    /\ UNCHANGED extractVars
    /\ UNCHANGED mainVars
    /\ UNCHANGED heatmapVars
    /\ UNCHANGED figureVars
    /\ UNCHANGED lateVars

NextOverlay == CreateOverlay

SpecOverlay == InitOverlay /\ [][NextOverlay]_vars

\* -------------------------------------------------- specification SpecBatch
\* Calls of make_gradcam_heatmap on the images of a batch, in any order and
\* overlapping: a call is two steps, the forward pass with the gradient
\* (lines 40-56), then the pooling and the normalisation (lines 58-71).

\* An image as the classifier sees it: the activations of the last
\* convolutional layer, the class scores, and per class the gradient of
\* its score with respect to the activations.
Image(conv, preds, g) == [conv_output |-> conv, preds |-> preds, grads |-> g]

\* tf.argmax(preds[0]): the first class with the largest score.
argmax(preds) ==
    CHOOSE c \in 0..(Len(preds) - 1) :
        /\ \A d \in 0..(Len(preds) - 1) : preds[d + 1] <= preds[c + 1]
        /\ \A d \in 0..(c - 1) : preds[d + 1] < preds[c + 1]

\* The locals of a call after the GradientTape block and tape.gradient;
\* pred_index is <<>> for None and <<c>> for the class c.
gradient_tape(image, pred_index) ==
    LET target == IF pred_index = <<>> THEN argmax(image.preds) ELSE pred_index[1]
    IN [pred_index |-> target,
        last_conv_layer_output |-> image.conv_output,
        grads |-> image.grads[target + 1],
        heatmap |-> NoHeatmap]

\* The target of a call that remembers the target of the call before it.
gradient_tape_remembering(image, pred_index, before) ==
    IF pred_index = <<>> /\ Len(before) > 0
    THEN gradient_tape(image, <<before[Len(before)].locals.pred_index>>)
    ELSE gradient_tape(image, pred_index)

\* The target of a call, `before' being the calls made so far: the code
\* keeps nothing of them.
gradient_tape_after(image, pred_index, before) == gradient_tape(image, pred_index)

One(x) == <<<<Fin(Rat(x, 1))>>>>

\* Class scores in tenths: a clear top class 0, a clear top class 1, and a
\* tie of the classes 0 and 1.
ScoreInputs == {<<7, 2, 1>>, <<1, 8, 1>>, <<4, 4, 2>>}

ImageInputs ==
    {Image(One(a), sc, <<One(g), One(0 - g), One(g)>>) :
        a \in {0, 1}, sc \in ScoreInputs, g \in {0 - 1, 1}}

PredIndexInputs == {<<>>} \cup {<<c>> : c \in Classes}

InitBatch ==
    /\ examples \in [1..MaxExamples -> ImageInputs]
    /\ calls = <<>>
    /\ models = <<>>
    /\ figures = <<>>
    /\ selections = <<>>
    /\ assigned = <<>>
    /\ PipelineIdle
    /\ tape = [k \in 1..TapeLen |-> 0]
    /\ SplitIdle
    /\ ThreshIdle
    /\ MaskIdle
    /\ ExtractIdle
    /\ MainIdle
    /\ HeatmapIdle
    /\ OverlayIdle

BatchUnchanged ==
    /\ UNCHANGED <<examples, models, figures, selections, assigned, tape,
                   required_files, steps>>
    /\ UNCHANGED splitVars
    /\ UNCHANGED threshVars
    /\ UNCHANGED maskVars
    /\ UNCHANGED extractVars
    /\ UNCHANGED <<mainVars, heatmapVars, overlayVars>>

\* A call make_gradcam_heatmap(img_array, model, last_conv_layer_name,
\* pred_index) on image i of the batch, up to tape.gradient.
StartGradcam ==
    /\ Len(calls) < MaxCalls
    /\ \E i \in 1..Len(examples), pred_index \in PredIndexInputs :
          calls' = Append(calls, [image |-> i, pred_index |-> pred_index,
                                  locals |-> gradient_tape_after(examples[i], pred_index, calls)])
    /\ BatchUnchanged

\* The rest of a call that got its gradient: the heatmap it returns.
FinishGradcam ==
    /\ \E k \in 1..Len(calls), policy \in NanPolicies :
          /\ calls[k].locals.heatmap = NoHeatmap
          /\ calls' = [calls EXCEPT ![k].locals.heatmap =
                          make_gradcam_heatmap(calls[k].locals.last_conv_layer_output,
                                               calls[k].locals.grads, policy)]
    /\ BatchUnchanged

NextBatch == StartGradcam \/ FinishGradcam

SpecBatch == InitBatch /\ [][NextBatch]_vars

\* main of generate_gradcam_figure.py with generate_figure8 and
\* get_last_conv_layer_name.

\* A layer: whether its lower-cased name holds 'conv', whether it holds
\* 'block', and whether it is a keras.layers.Conv2D.
Layer(name, conv, block, conv2d) ==
    [name |-> name, conv |-> conv, block |-> block, conv2d |-> conv2d]

\* A classifier: model.layers, and model.layers[0].layers.
Classifier(layers, base) == [layers |-> layers, base |-> base]

\* The name of the first layer in reversed(ls) among those at the
\* positions hits, None without one.
LastLayer(ls, hits) ==
    IF hits = {} THEN None
    ELSE ls[CHOOSE k \in hits : \A j \in hits : j <= k].name

\* The positions of the layers whose name holds 'conv'; 'conv' or 'block';
\* and of the Conv2D layers.
ConvNamed(ls) == {k \in 1..Len(ls) : ls[k].conv}
ConvOrBlockNamed(ls) == {k \in 1..Len(ls) : ls[k].conv \/ ls[k].block}
Conv2DLayers(ls) == {k \in 1..Len(ls) : ls[k].conv2d}

\* The fallback of get_last_conv_layer_name: the last Conv2D of model.layers.
last_conv2d(model) == LastLayer(model.layers, Conv2DLayers(model.layers))

\* get_last_conv_layer_name(model, model_name)
get_last_conv_layer_name(model, model_name) ==
    IF model_name = "resnet50" /\ LastLayer(model.base, ConvNamed(model.base)) # None
    THEN LastLayer(model.base, ConvNamed(model.base))
    ELSE IF model_name = "efficientnet"
            /\ LastLayer(model.base, ConvOrBlockNamed(model.base)) # None
    THEN LastLayer(model.base, ConvOrBlockNamed(model.base))
    ELSE last_conv2d(model)

\* The model names main passes to generate_figure8, and the figure files.
ModelNames == <<"ResNet50", "EfficientNet-B0">>
FigureFiles == <<"figura_gradcam_resnet50.pdf", "figura_gradcam_efficientnet.pdf">>

\* The rows of the figure, one per example: the heatmap of the example and
\* its overlay.
figure_rows(exs, policy) ==
    [row \in 1..Len(exs) |->
        [heatmap |-> make_gradcam_heatmap(exs[row].conv_output, exs[row].grads, policy),
         overlay |-> TRUE]]

\* generate_figure8(model, model_name, examples, output_path): what is
\* printed and the figure that is saved, <<>> when none is.
generate_figure8(model, model_name, exs, output_path, policy) ==
    IF get_last_conv_layer_name(model, model_name) = None
    THEN [stdout |-> <<Line("ERROR: Could not find last conv layer", model_name)>>,
          figures |-> <<>>]
    ELSE [stdout |-> <<Line("Using layer", get_last_conv_layer_name(model, model_name)),
                       Line("Figure saved", output_path)>>,
          figures |-> <<[path |-> output_path, rows |-> figure_rows(exs, policy)]>>]

\* A base model wrapped with a classification head, and a network with
\* its convolutions at the top level.
BaseLayers == <<Layer("conv5_block3_out", TRUE, TRUE, FALSE)>>
WrappedModel == Classifier(<<Layer("resnet50", FALSE, FALSE, FALSE),
                             Layer("dense", FALSE, FALSE, FALSE)>>, BaseLayers)
FlatModel == Classifier(<<Layer("conv2d_1", TRUE, FALSE, TRUE),
                          Layer("dense", FALSE, FALSE, FALSE)>>, <<>>)

\* A wrapped base model followed by a convolution at the top level.
MixedModel == Classifier(<<Layer("resnet50", FALSE, FALSE, FALSE),
                           Layer("conv2d_head", TRUE, FALSE, TRUE),
                           Layer("dense", FALSE, FALSE, FALSE)>>, BaseLayers)

ModelInputs == {WrappedModel, FlatModel, MixedModel}

\* An example, with the activations and the gradient the classifier
\* yields for its image (one position, one channel).
Example(a, g) == [conv_output |-> <<<<a>>>>, grads |-> <<<<g>>>>]

ExampleInputs == {Example(a, g) : a \in {Zero, Fin(Rat(1, 1))}, g \in {Fin(Rat(1, 1)), NaN}}

\* select_representative_examples returned at least one example.
ExampleLists == SeqsUpTo(ExampleInputs, MaxExamples) \ {<<>>}

\* models/resnet50_best.keras does not exist: no classifier to load.
NoModels == <<>>

InitFigure ==
    /\ models \in [1..2 -> ModelInputs] \cup {NoModels}
    /\ examples \in [1..2 -> ExampleLists]
    /\ masks_exists = TRUE
    /\ figures = <<>>
    /\ stdout = <<>>
    /\ phase = "start"
    /\ loop_i = 0
    /\ exit_status = Running
    /\ tape = [k \in 1..TapeLen |-> 0]
    /\ original_exists = TRUE
    /\ stats = NoStats
    /\ output_files = <<>>
    /\ mask_dir = <<>>
    /\ mask_files = <<>>
    /\ results = <<>>
    /\ SplitIdle
    /\ ThreshIdle
    /\ MaskIdle
    /\ HeatmapIdle
    /\ OverlayIdle
    /\ LateIdle

FigureUnchanged ==
    /\ UNCHANGED <<models, examples, masks_exists, original_exists, stats, output_files,
                   mask_dir, mask_files, results, tape>>
    /\ UNCHANGED splitVars
    /\ UNCHANGED threshVars
    /\ UNCHANGED maskVars
    /\ UNCHANGED heatmapVars
    /\ UNCHANGED overlayVars
    /\ UNCHANGED lateVars

\* main up to the loading of the models: without the model file it prints
\* an error and returns.
FigureLoad ==
    /\ phase = "start"
    /\ IF models = NoModels
       THEN /\ stdout' = Append(stdout, Line("ERROR: Models not found", 0))
            /\ exit_status' = ExitReturned
            /\ phase' = "exited"
       ELSE /\ stdout' = Append(stdout, Line("Models and data loaded", 0))
            /\ phase' = "figures"
            /\ UNCHANGED exit_status
    /\ UNCHANGED <<figures, loop_i>>
    /\ FigureUnchanged

\* One call generate_figure8 of main, for the next classifier.
GenerateFigure8 ==
    /\ phase = "figures"
    /\ loop_i < Len(models)
    /\ \E policy \in NanPolicies :
          \E r \in {generate_figure8(models[loop_i + 1], ModelNames[loop_i + 1],
                                     examples[loop_i + 1], FigureFiles[loop_i + 1], policy)} :
             /\ stdout' = stdout \o r.stdout
             /\ figures' = figures \o r.figures
    /\ loop_i' = loop_i + 1
    /\ UNCHANGED <<phase, exit_status>>
    /\ FigureUnchanged

\* The end of main: the success message.
FigureDone ==
    /\ phase = "figures"
    /\ loop_i = Len(models)
    /\ stdout' = Append(stdout, Line("GRAD-CAM FIGURES GENERATED SUCCESSFULLY!", 0))
    /\ exit_status' = ExitReturned
    /\ phase' = "exited"
    /\ UNCHANGED <<figures, loop_i>>
    /\ FigureUnchanged

NextFigure == FigureLoad \/ GenerateFigure8 \/ FigureDone

SpecFigure == InitFigure /\ [][NextFigure]_vars

\* ----------------------------------------------- specification SpecPipeline
\* main of run_complete_pipeline.py.

\* required_files of check_training_complete
RequiredFiles == {"models/resnet50_best.keras", "models/efficientnet_best.keras",
                  "models/custom_cnn_best.keras", "results/all_models_results.json"}

check_training_complete(present) == \A f \in RequiredFiles : f \in present

\* What a command did: its exit status, and whether the script failed to
\* do its work.
Outcome(step, returncode, failed) == [step |-> step, returncode |-> returncode, failed |-> failed]

\* A script that either does its work and exits with 0, or is ended by an
\* uncaught exception.
script(step, crash) ==
    IF crash THEN Outcome(step, ExitUncaught, TRUE) ELSE Outcome(step, ExitReturned, FALSE)

\* python generate_gradcam_figure.py on the classifiers ms: main returns,
\* and the process exits with 0, also when generate_figure8 found no layer
\* and saved no figure.
gradcam_script(ms, crash) ==
    IF crash THEN Outcome("generate_gradcam_figure", ExitUncaught, TRUE)
    ELSE Outcome("generate_gradcam_figure", ExitReturned,
                 \E m \in 1..Len(ms) : get_last_conv_layer_name(ms[m], ModelNames[m]) = None)

\* run_command: subprocess.run(check=True) raises CalledProcessError on a
\* non-zero exit status, and only then run_command returns False.
run_command(outcome) == outcome.returncode = 0

InitPipeline ==
    /\ required_files \in SUBSET RequiredFiles
    /\ models \in [1..2 -> ModelInputs]
    /\ steps = <<>>
    /\ stdout = <<>>
    /\ phase = "start"
    /\ exit_status = Running
    /\ examples = <<>>
    /\ figures = <<>>
    /\ selections = <<>>
    /\ assigned = <<>>
    /\ calls = <<>>
    /\ tape = [k \in 1..TapeLen |-> 0]
    /\ original_exists = TRUE
    /\ masks_exists = TRUE
    /\ stats = NoStats
    /\ output_files = <<>>
    /\ mask_dir = <<>>
    /\ mask_files = <<>>
    /\ loop_i = 0
    /\ results = <<>>
    /\ SplitIdle
    /\ ThreshIdle
    /\ MaskIdle
    /\ HeatmapIdle
    /\ OverlayIdle

PipelineUnchanged ==
    /\ UNCHANGED <<required_files, models, examples, figures, selections, assigned, calls,
                   tape, original_exists, masks_exists, stats, output_files,
                   mask_dir, mask_files, loop_i, results>>
    /\ UNCHANGED splitVars
    /\ UNCHANGED threshVars
    /\ UNCHANGED maskVars
    /\ UNCHANGED heatmapVars
    /\ UNCHANGED overlayVars

\* Step 1: without all required files main prints a notice and returns.
CheckTrainingComplete ==
    /\ phase = "start"
    /\ IF ~check_training_complete(required_files)
       THEN /\ stdout' = Append(stdout, Line("Training not complete yet", 0))
            /\ exit_status' = ExitReturned
            /\ phase' = "exited"
       ELSE /\ stdout' = Append(stdout, Line("Training complete! All models found.", 0))
            /\ phase' = "step2"
            /\ UNCHANGED exit_status
    /\ UNCHANGED steps
    /\ PipelineUnchanged

\* What main does with the outcome of a command: on False it returns.
AfterCommand(outcome, description, next) ==
    /\ steps' = Append(steps, outcome)
    /\ IF run_command(outcome)
       THEN /\ stdout' = Append(stdout, Line("completed successfully", description))
            /\ phase' = next
            /\ UNCHANGED exit_status
       ELSE /\ stdout' = Append(stdout, Line("failed", description))
            /\ exit_status' = ExitReturned
            /\ phase' = "exited"
    /\ PipelineUnchanged

\* Step 2: python generate_real_figures.py
RunRealFigures ==
    /\ phase = "step2"
    /\ \E crash \in BOOLEAN :
          AfterCommand(script("generate_real_figures", crash),
                       "Generate Figures 4-7 with Real Data", "step3")

\* Step 3: python generate_gradcam_figure.py
RunGradcamFigure ==
    /\ phase = "step3"
    /\ \E crash \in BOOLEAN :
          AfterCommand(gradcam_script(models, crash),
                       "Generate Figure 8 - Grad-CAM Explainability", "step4")

\* Step 4: python complete_article_update.py
RunArticleUpdate ==
    /\ phase = "step4"
    /\ \E crash \in BOOLEAN :
          AfterCommand(script("complete_article_update", crash),
                       "Update Article with Real Data", "step5")

\* Step 5: the final summary; it reads results/dataset_statistics.json,
\* which may not exist.
FinalSummary ==
    /\ phase = "step5"
    /\ stdout' = Append(stdout, Line("PIPELINE COMPLETED SUCCESSFULLY!", 0))
    /\ \E statistics_exist \in BOOLEAN :
          exit_status' = IF statistics_exist THEN ExitReturned ELSE ExitUncaught
    /\ phase' = "exited"
    /\ UNCHANGED steps
    /\ PipelineUnchanged

NextPipeline ==
    \/ CheckTrainingComplete
    \/ RunRealFigures
    \/ RunGradcamFigure
    \/ RunArticleUpdate
    \/ FinalSummary

SpecPipeline == InitPipeline /\ [][NextPipeline]_vars

\* ---------------------------------------------------------------- claims
AllIdx(o) == o.train_idx \o o.val_idx \o o.test_idx

NoDuplicates(s) == Cardinality(Range(s)) = Len(s)

\* C1: whenever create_stratified_splits returns, train_idx, val_idx and
\* test_idx have no duplicates, are pairwise disjoint, and their union is
\* exactly {0..N-1}, N the number of records.
C1_ExactCover ==
    split.status = "returned" =>
        /\ NoDuplicates(split.train_idx)
        /\ NoDuplicates(split.val_idx)
        /\ NoDuplicates(split.test_idx)
        /\ Range(split.train_idx) \cap Range(split.val_idx) = {}
        /\ Range(split.train_idx) \cap Range(split.test_idx) = {}
        /\ Range(split.val_idx) \cap Range(split.test_idx) = {}
        /\ Range(AllIdx(split)) = 0..(Len(labels) - 1)

\* A partition of at least two classes was returned, with all three parts
\* non-empty.
C1_Witness ==
    /\ split.status = "returned"
    /\ Cardinality(Range(labels)) >= 2
    /\ Len(split.train_idx) > 0 /\ Len(split.val_idx) > 0 /\ Len(split.test_idx) > 0

\* C2: two runs of the partitioner on the same seed, ratios and labels give
\* the same outcome (the same three index lists), whatever was drawn from
\* the process-wide generator before or between them.
C2_Deterministic ==
    \A i, j \in 1..Len(runs) : runs[i] = runs[j]

\* Two partitions were returned, and the process-wide generator moved
\* between the import and the second call.
C2_Witness ==
    /\ Len(runs) = 2
    /\ runs[2].status = "returned"
    /\ np_random > 1

Members(idx, c) == {i \in 1..Len(idx) : labels[idx[i] + 1] = c}

\* C6: the partitioner never returns a partition in which a class present
\* in the input is absent from train, val or test.
C6_NoClassDropped ==
    split.status = "returned" =>
        \A c \in Range(labels) :
            /\ Members(split.train_idx, c) # {}
            /\ Members(split.val_idx, c) # {}
            /\ Members(split.test_idx, c) # {}

InvalidRatios(r) ==
    \/ ~(Abs(r.train + r.val + r.test - r.den) * RatioTolDen < r.den)
    \/ r.train < 0 \/ r.val < 0 \/ r.test < 0
    \/ r.val + r.test <= 0

C3_HalfOpenClasses ==
    result_class # <<>> =>
        /\ Len(result_class) = Len(percentages)
        /\ \A i \in 1..Len(percentages) :
              LET p == percentages[i]
                  c == result_class[i]
                  belowLow == p * selector.low.d < selector.low.n
                  belowHigh == p * selector.high.d < selector.high.n
              IN /\ c \in {0, 1, 2}
                 /\ (c = 0 <=> belowLow)
                 /\ (c = 1 <=> (~belowLow /\ belowHigh))
                 /\ (c = 2 <=> (~belowLow /\ ~belowHigh))

\* Labeled records of which one lies exactly on the low boundary (class 1)
\* and one exactly on the high boundary (class 2).
C3_Witness ==
    /\ result_class # <<>>
    /\ \E i \in 1..Len(percentages) :
          /\ Rat(percentages[i], 1) = selector.low
          /\ result_class[i] = 1
    /\ \E i \in 1..Len(percentages) :
          /\ Rat(percentages[i], 1) = selector.high
          /\ result_class[i] = 2

\* C4: for every strategy, a pair returned for percentages with at least 3
\* distinct values has threshold_low < threshold_high.
C4_LowBelowHigh ==
    (selector.status = "returned" /\ Cardinality(Range(percentages)) >= 3) =>
        RatLess(selector.low, selector.high)

\* C5: for percentages with fewer than 3 distinct values the selector fails
\* with an error and returns no pair.
C5_DegenerateRejected ==
    (selector.status # "none" /\ Cardinality(Range(percentages)) < 3) =>
        selector.status = "raised"

KnownMethods == {"quantile", "domain", "kmeans"}

\* C8: for a strategy name other than quantile, domain and kmeans the
\* selector raises: no pair is returned, no record is labeled and no
\* partition is produced in that run.
C8_UnknownStrategyAborts ==
    method \notin KnownMethods =>
        /\ selector.status # "returned"
        /\ (selector.status = "raised" => selector.error = "UnboundLocalError")
        /\ result_class = <<>>
        /\ split.status = "none"

\* The selector was called with an unknown strategy name and raised.
C8_Witness ==
    /\ method \notin KnownMethods
    /\ selector.status = "raised"

\* C9: for a readable mask the percentage is 100 x (pixels of intensity
\* above 127) / (pixels), lies in [0, 100], is 0 for an all-dark mask and
\* 100 for an all-white one.
C9_PercentageOfBrightPixels ==
    (percentage.status # "pending" /\ mask.readable) =>
        LET n == Len(mask.pixels)
            bright == {k \in 1..n : ConvertL(mask.pixels[k]) > 127}
            v == percentage.value
        IN /\ percentage.status = "value"
           /\ v.n * n = 100 * Cardinality(bright) * v.d
           /\ 0 <= v.n /\ v.n <= 100 * v.d
           /\ ((\A k \in 1..n : mask.pixels[k] = Gray(0)) => v = [n |-> 0, d |-> 1])
           /\ ((\A k \in 1..n : mask.pixels[k] = Gray(255)) => v = [n |-> 100, d |-> 1])

\* The percentage of a readable mask with a pixel of intensity 127 and one
\* of intensity 128 was computed.
C9_Witness ==
    /\ percentage.status = "value"
    /\ \E k \in 1..Len(mask.pixels) : mask.pixels[k] = Gray(127)
    /\ \E k \in 1..Len(mask.pixels) : mask.pixels[k] = Gray(128)

JpgFiles == {f \in Range(mask_dir) : f.jpg}

Printed(msg) == {k \in 1..Len(stdout) : stdout[k].msg = msg}

C11_UnreadableExcluded ==
    /\ \A k \in 1..Len(results) : FileNamed(results[k].filename).mask.readable
    /\ phase = "returned" =>
          \A f \in JpgFiles : (f.original /\ f.mask.readable) =>
              \E k \in 1..Len(results) : results[k].filename = f.name

\* Sizes of the three parts of a partition.
Sizes(o) == [train |-> Len(o.train_idx), val |-> Len(o.val_idx), test |-> Len(o.test_idx)]

\* |size / n - ratio / den| <= 0.02
WithinTwoPercent(size, n, ratio, den) ==
    Abs(size * den - ratio * n) * 100 <= 2 * n * den

\* C12: for N >= 50 records, classes large enough to stratify, each of
\* |train|/N, |val|/N and |test|/N of a returned partition differs from
\* the requested ratio by at most 0.02.
C12_SizesWithinTwoPercent ==
    (split.status = "returned" /\ Len(labels) >= MinLarge) =>
        /\ WithinTwoPercent(Sizes(split).train, Len(labels), ratios.train, ratios.den)
        /\ WithinTwoPercent(Sizes(split).val, Len(labels), ratios.val, ratios.den)
        /\ WithinTwoPercent(Sizes(split).test, Len(labels), ratios.test, ratios.den)

\* C13: with the default ratios (0.70, 0.15, 0.15) and 217 records, the
\* partitioner returns parts whose sizes add up to 217 and are within one
\* record of 151, 33 and 33.
C13_DatasetSizes ==
    (split.status # "none" /\ Len(labels) = DatasetSize /\ ratios = DefaultRatios) =>
        /\ split.status = "returned"
        /\ Sizes(split).train + Sizes(split).val + Sizes(split).test = DatasetSize
        /\ Abs(Sizes(split).train - 151) <= 1
        /\ Abs(Sizes(split).val - 33) <= 1
        /\ Abs(Sizes(split).test - 33) <= 1

\* The 217 records were partitioned with the default ratios into exactly
\* 151, 33 and 33.
C13_Witness ==
    /\ split.status = "returned"
    /\ Len(labels) = DatasetSize
    /\ ratios = DefaultRatios
    /\ Sizes(split) = [train |-> 151, val |-> 33, test |-> 33]

\* Number of records of class c among the indices idx.
CountIn(idx, c) == Cardinality({k \in 1..Len(idx) : labels[idx[k] + 1] = c})

CountOf(c) == Cardinality({p \in 1..Len(labels) : labels[p] = c})

\* C14: in every returned partition and for every class c, the number of
\* class-c records in train is within one record of |train| x (count of
\* c) / N.
C14_TrainStratified ==
    split.status = "returned" =>
        \A c \in Classes :
            Abs(CountIn(split.train_idx, c) * Len(labels)
                - Len(split.train_idx) * CountOf(c)) <= Len(labels)

\* A partition of two classes or more was returned, the train share of
\* no class being a whole number.
C14_Witness ==
    /\ split.status = "returned"
    /\ Cardinality(Range(labels)) >= 2
    /\ \A c \in Range(labels) : (Len(split.train_idx) * CountOf(c)) % Len(labels) # 0

\* The classes of the records of a part of the partition.
ClassesIn(idx) == {result_class[idx[k] + 1] : k \in 1..Len(idx)}

\* The per-split entry of class c in the report is 0.
ReportsZero(entry, c) ==
    /\ c \in DOMAIN entry.class_distribution
    /\ entry.class_distribution[c] = 0

\* C15: generate_statistics_report does not raise when a class has no
\* member overall or in some split, and the report then holds 0 for the
\* class's count, min and max and for its entry in that split.
C15_EmptyClassReportedAsZero ==
    stats.status # "none" =>
        /\ stats.status = "returned"
        /\ \A c \in Classes :
              /\ c \notin Range(result_class) =>
                    /\ stats.class_distribution[c].count = 0
                    /\ stats.class_distribution[c].min_corrosion = Rat(0, 1)
                    /\ stats.class_distribution[c].max_corrosion = Rat(0, 1)
              /\ c \notin ClassesIn(split.train_idx) => ReportsZero(stats.splits.train, c)
              /\ c \notin ClassesIn(split.val_idx) => ReportsZero(stats.splits.validation, c)
              /\ c \notin ClassesIn(split.test_idx) => ReportsZero(stats.splits.test, c)

\* C20: main ends with a non-zero status when the directory of the
\* originals or of the masks is absent or no record was collected, and
\* with status 0 only when a partition was produced.
C20_FailureStatus ==
    phase = "exited" =>
        /\ (~original_exists \/ ~masks_exists \/ Len(results) = 0) =>
              exit_status # ExitReturned
        /\ exit_status = ExitReturned => split.status = "returned"

\* The channel-weighted activation sum behind the heatmap at hand.
WeightedSum == weighted_sum(conv_output, reduce_mean(grads))

FiniteGrads == \A p \in 1..Len(grads) : \A c \in 1..Len(grads[p]) : grads[p][c].k = "fin"

AllZero(h) == \A p \in 1..Len(h) : h[p] = Zero

\* C16: every value of the heatmap lies in [0, 1]; the heatmap is all
\* zero exactly when the maximum of the weighted sum is zero or the
\* rectified sum is zero everywhere, and a maximum of 0 gives an all-zero
\* heatmap, no non-finite value.
C16_HeatmapInUnitInterval ==
    (heatmap # NoHeatmap /\ FiniteGrads) =>
        /\ \A p \in 1..Len(heatmap) :
              /\ heatmap[p].k = "fin"
              /\ ~RatLess(heatmap[p].v, Rat(0, 1))
              /\ ~RatLess(Rat(1, 1), heatmap[p].v)
        /\ AllZero(heatmap) <=> \A p \in 1..Len(WeightedSum) : ~FLess(Zero, WeightedSum[p])

\* alpha x jet + (1 - alpha) x img at pixel p, as a uint8.
Blend(p) ==
    Uint8(RatAdd(RatMul(alpha, Rat(jet_heatmap[p], 1)),
                 RatMul(RatSub(Rat(1, 1), alpha), Rat(img[p], 1))))

\* C19: at every pixel the overlay is alpha x color-mapped(heatmap) +
\* (1 - alpha) x original image; with alpha = 0 it is the original image
\* and with alpha = 1 the color-mapped heatmap.
C19_OverlayIsBlend ==
    overlay # NoOverlay =>
        /\ \A p \in 1..Len(overlay) : overlay[p] = Blend(p)
        /\ alpha = Rat(0, 1) => overlay = img
        /\ alpha = Rat(1, 1) => overlay = jet_heatmap

\* The figures saved for the m-th classifier.
FiguresOf(m) == {k \in 1..Len(figures) : figures[k].path = FigureFiles[m]}

NoLayer(m) == get_last_conv_layer_name(models[m], ModelNames[m]) = None

\* C17: when no qualifying convolutional layer is found for a classifier,
\* the run fails: no figure is produced for that classifier, no success is
\* reported and the exit status is not 0.
C17_NoLayerIsFatal ==
    phase = "exited" =>
        \A m \in 1..Len(models) : NoLayer(m) =>
            /\ FiguresOf(m) = {}
            /\ Printed("GRAD-CAM FIGURES GENERATED SUCCESSFULLY!") = {}
            /\ exit_status # ExitReturned

NonFinite(ex) ==
    \E p \in 1..Len(ex.grads) : \E c \in 1..Len(ex.grads[p]) : ex.grads[p][c].k # "fin"

\* C18: an image whose gradient holds a non-finite value gets no heatmap
\* (its saliency computation ends in an error, the heatmap is neither NaN
\* nor silently zero), and the other images of the batch get theirs.
C18_NonFiniteGradientIsAnError ==
    phase = "exited" =>
        \A m \in 1..Len(models) : \A k \in FiguresOf(m) :
            \A row \in 1..Len(examples[m]) :
                IF NonFinite(examples[m][row])
                THEN figures[k].rows[row].heatmap = NoHeatmap
                ELSE figures[k].rows[row].heatmap # NoHeatmap

\* C21: in one run of the selector, labeler and partitioner the seed is set
\* exactly once, when the module is loaded and so before the first random
\* operation, and no generator is seeded or reseeded later in the run.
C21_SeededOnce == seedings = <<ImportSeeding>>

\* The three centers of c in an ascending order.
Ascending(c) ==
    {o \in [1..3 -> 1..3] :
        /\ {o[1], o[2], o[3]} = 1..3
        /\ ~RatLess(c[o[2]], c[o[1]])
        /\ ~RatLess(c[o[3]], c[o[2]])}

\* C22: the kmeans strategy returns threshold_low = (c1 + c2)/2 and
\* threshold_high = (c2 + c3)/2 for the cluster centers c1 <= c2 <= c3, and on
\* the percentages 1..30 all calls of a process return the same pair.
C22_KMeansMidpoints ==
    /\ \A k \in 1..Len(selections) :
          selections[k].status = "returned" =>
             \E o \in Ascending(kmeans_cluster_centers(percentages)) :
                LET c == kmeans_cluster_centers(percentages)
                IN /\ selections[k].low = RatHalf(RatAdd(c[o[1]], c[o[2]]))
                   /\ selections[k].high = RatHalf(RatAdd(c[o[2]], c[o[3]]))
    /\ percentages = UniformPercentages =>
          \A j, k \in 1..Len(selections) : selections[j] = selections[k]

\* Two calls on 1..30 with a draw from the process-wide generator in
\* between, both returning thresholds.
C22_Witness ==
    /\ percentages = UniformPercentages
    /\ Len(selections) = 2
    /\ np_random > 1
    /\ selections[1].status = "returned"
    /\ RatLess(selections[1].low, selections[1].high)

\* p lies in the class range r.
InRange(p, r) == (r.low = Unbounded \/ r.low <= p) /\ (r.high = Unbounded \/ p < r.high)

\* C23: every code path that assigns or shows a severity class places a
\* percentage in the same class, with the same boundaries.
C23_UniformBoundaries ==
    \A j, k \in 1..Len(assigned) :
        /\ assigned[j].class = assigned[k].class
        /\ assigned[j].range = assigned[k].range
        /\ InRange(percentage, assigned[k].range)

\* The heatmap of image im for the target class c, computed on its own.
Alone(im, c, policy) == make_gradcam_heatmap(im.conv_output, im.grads[c + 1], policy)

Excluded == {f \in JpgFiles : ~f.original \/ ~f.mask.readable}

ClassSize(c) == Cardinality({k \in 1..Len(result_class) : result_class[k] = c})

\* C25: after extraction and labeling with the domain thresholds (8, 11) the
\* number of records is the number of mask files minus the excluded ones, and
\* the sizes of the classes 0, 1 and 2 sum to that number, every record
\* being in exactly one of the three classes.
C25_ClassSizesSum ==
    phase \in {"step4", "step5", "step6", "step7"} =>
        /\ Len(results) = Cardinality(JpgFiles) - Cardinality(Excluded)
        /\ Len(result_class) = Len(results)
        /\ \A k \in 1..Len(result_class) : result_class[k] \in Classes
        /\ ClassSize(0) + ClassSize(1) + ClassSize(2) = Len(results)
        /\ selector.low = Rat(DomainLow, 1)
        /\ selector.high = Rat(DomainHigh, 1)

\* Labeled records of three non-empty classes, with a mask without
\* original image and an undecodable mask left out.
C25_Witness ==
    /\ phase = "step4"
    /\ \A c \in Classes : ClassSize(c) > 0
    /\ \E f \in Excluded : ~f.original
    /\ \E f \in Excluded : f.original /\ ~f.mask.readable

PipelineOrder ==
    <<"generate_real_figures", "generate_gradcam_figure", "complete_article_update">>

\* C26: the commands run in the order generate_real_figures,
\* generate_gradcam_figure, complete_article_update, and only with all four
\* required training files; a command starts only after the one before it
\* did its work, and after the first failed command no later command and no
\* final summary is executed.
C26_PipelineOrder ==
    /\ Len(steps) <= Len(PipelineOrder)
    /\ \A k \in 1..Len(steps) : steps[k].step = PipelineOrder[k]
    /\ Len(steps) > 0 => check_training_complete(required_files)
    /\ \A k \in 1..(Len(steps) - 1) : ~steps[k].failed
    /\ Printed("PIPELINE COMPLETED SUCCESSFULLY!") # {} =>
          /\ Len(steps) = Len(PipelineOrder)
          /\ \A k \in 1..Len(steps) : ~steps[k].failed

\* The layer of the base model the search by name finds for the m-th
\* classifier of main: 'conv' for ResNet50, 'conv' or 'block' for
\* EfficientNet-B0.
BaseLayerFor(m) ==
    LastLayer(models[m].base,
              IF m = 1 THEN ConvNamed(models[m].base) ELSE ConvOrBlockNamed(models[m].base))

\* C27: for the ResNet50 and the EfficientNet-B0 figure of main,
\* get_last_conv_layer_name returns the last layer of the base model whose
\* name holds 'conv' (or 'conv' or 'block'); the top-level Conv2D fallback is
\* not what decides the layer for these two models.
C27_BaseModelLayerUsed ==
    \A m \in 1..Len(models) :
        (m <= loop_i /\ BaseLayerFor(m) # None) =>
            /\ get_last_conv_layer_name(models[m], ModelNames[m]) = BaseLayerFor(m)
            /\ \E k \in Printed("Using layer") : stdout[k].arg = BaseLayerFor(m)

SameRatios(a, b) ==
    /\ a.train * b.den = b.train * a.den
    /\ a.val * b.den = b.val * a.den
    /\ a.test * b.den = b.test * a.den

\* C28: the reproducibility entry of the statistics report holds the seed
\* and the split ratios that create_stratified_splits used for the partition
\* the report describes, whatever ratios the partitioner was given.
C28_ReportedRatiosAreUsed ==
    stats.status = "returned" =>
        /\ stats.reproducibility.random_seed = SplitRandomState[1]
        /\ SameRatios(stats.reproducibility.split_ratios, ratios)

WrittenFiles == {output_files[k] : k \in 1..Len(output_files)}

ThreeFiles ==
    {"dataset_statistics.json", "dataset_splits_indices.json", "dataset_splits_files.json"}

\* main has ended before step 5: a directory is missing, there is no
\* record, or create_stratified_splits raised.
EndedEarly ==
    /\ phase = "exited"
    /\ \/ ~original_exists
       \/ ~masks_exists
       \/ Len(results) = 0
       \/ split.status = "raised"

\* C29: main writes dataset_statistics.json, dataset_splits_indices.json and
\* dataset_splits_files.json only after analyze_all_images, classify_images
\* and create_stratified_splits have returned; a run that ends early has
\* written none of the three.
C29_FilesAfterPartition ==
    /\ WrittenFiles \cap ThreeFiles # {} =>
          /\ Len(results) > 0
          /\ Len(result_class) = Len(results)
          /\ split.status = "returned"
          /\ Len(split.train_idx) + Len(split.val_idx) + Len(split.test_idx) = Len(results)
    /\ EndedEarly => WrittenFiles \cap ThreeFiles = {}

C29_Witness ==
    /\ phase = "exited"
    /\ exit_status = ExitReturned
    /\ ThreeFiles \subseteq WrittenFiles
    /\ split.status = "returned"
    /\ Len(results) > 1

\* The names of the masks that give a record: .jpg files with an original
\* image and a mask that can be decoded.
RecordNames ==
    {f.name : f \in {g \in Range(mask_dir) :
                        /\ g.jpg
                        /\ g.original
                        /\ calculate_corroded_percentage(g.mask).status # "None"}}

\* The records as the set of files of the directory determines them.
RecordsOfDirectory ==
    LET names == SortedAsc(RecordNames)
    IN [k \in 1..Len(names) |->
          [filename |-> names[k],
           percentage |-> calculate_corroded_percentage(FileNamed(names[k]).mask).value]]

\* C30: the records analyze_all_images returns, and so the index of each
\* record, are determined by the set of files of the mask directory: the
\* masks that are not excluded, in ascending order of name, whatever the
\* order of the directory listing.
C30_IndexBySortedNames ==
    phase = "returned" => results = RecordsOfDirectory

C30_Witness ==
    /\ phase = "returned"
    /\ Len(results) >= 2
    /\ Len(results) < Len(mask_dir)
    /\ \E a, b \in 1..Len(mask_dir) :
          /\ a < b
          /\ mask_dir[a].name > mask_dir[b].name
          /\ {mask_dir[a].name, mask_dir[b].name} \subseteq RecordNames

====
